---- MODULE Spec2Model ----
(***************************************************************************)
(* A model of Project-JARVIS: the tool command parser                      *)
(* (jarvis/core/command_parser.py and its inline twin in jarvis/main.py),  *)
(* the dialog loop (Jarvis.ask / LLM.ask), the wake-word detector          *)
(* (jarvis/voice_activation.py) and the voice coordinator                  *)
(* (jarvis/core/voice_manager.py, jarvis/voice_input.py).                  *)
(*                                                                         *)
(* Python strings are modelled as sequences of one-character strings, so   *)
(* that slicing, splitting and trimming are computed, not assumed.         *)
(***************************************************************************)
EXTENDS Integers, Sequences, FiniteSets, TLC

VARIABLES
    cmdPc,      \* command executor: "ready" | "done"
    cmdSegs,    \* the segments the input text was written from
    cmdText,    \* the command-sequence string handed to the executor
    cmdImpl,    \* which executor ran: "none" | "parser" | "jarvis"
    cmdOracle,  \* cmdOracle[i]: the tool service raises during the i-th command
    cmdOut      \* what the executor returned: [success, results, calls]

cmdVars == <<cmdPc, cmdSegs, cmdText, cmdImpl, cmdOracle, cmdOut>>

VARIABLES
    cfgReset,      \* Config.RESET_HISTORY_AFTER_RESPONSE
    cfgMode,       \* Config.OUTPUT_MODE
    askPc,         \* Jarvis.ask: "idle" | "chat" | "returned" | "raised" | "spin"
    askNo,         \* the number of ask() calls started; it names the prompt
    chat_history,  \* LLM.chat_history
    replyLog,      \* the model's replies during the current ask()
    replies,       \* the number of model replies so far, over all ask() calls
    callLog,       \* the message list handed to each model call of this ask()
    toolLog,       \* each executor run of this ask(): the command text, the output
    askResult,     \* what ask() returned
    sinkLog,       \* what was spoken or printed by this ask()
    spins,         \* iterations of the ask() loop that made no model call
    prevDone       \* the previous ask() returned normally

askVars == <<cfgReset, cfgMode, askPc, askNo, chat_history, replyLog, replies, callLog,
             toolLog, askResult, sinkLog, spins, prevDone>>

VARIABLES
    wNow,        \* time.time(), in seconds
    wRunning,    \* VoiceActivation._running
    wThread,     \* the listening thread is alive
    wStream,     \* VoiceActivation._stream is an open stream
    wStarts,     \* the number of times start_listening() started the thread
    wLast,       \* VoiceActivation._last_detection_time
    wCount,      \* VoiceActivation._detection_count
    wQueue,      \* VoiceActivation._activation_queue
    wCallbacks,  \* the number of on_wake_word() invocations
    wFired,      \* the timestamps of the accepted activations, in order
    wEvents,     \* the transcript events scanned: [t, partial, match, fired,
                 \* session (the start_listening() count of an accepted event)]
    gPc,         \* a caller of get_activation(): "idle" | "blocked" (inside Queue.get)
    gLog,        \* the calls of get_activation() that returned: [timeout, result]
    wRaised      \* the callback raised in the detection just handled

wakeVars == <<wNow, wRunning, wThread, wStream, wStarts, wLast, wCount, wQueue,
              wCallbacks, wFired, wEvents, gPc, gLog, wRaised>>

VARIABLES
    cPc,       \* where VoiceManager.start_voice_activation_mode stands
    cFlag,     \* VoiceManager._wake_word_detected
    cIntr,     \* a KeyboardInterrupt is propagating
    cOutcome,  \* how start_voice_activation_mode ends
    cSessions, \* the number of _process_voice_command calls so far
    dRunning,  \* VoiceActivation._running
    dThread,   \* VoiceActivation._listening_thread: "none", "loop" or "dead"
    dZombie,   \* a listening thread whose join timed out is still alive
    dStream,   \* VoiceActivation._stream is an open stream
    dAudio,    \* VoiceActivation._audio is a live PyAudio instance
    dLeaked,   \* open detector streams nothing refers to any more
    sRunning,  \* SpeechToText._running
    sThread,   \* SpeechToText._worker_thread: "none", "loop" or "dead"
    sZombie,   \* a worker thread whose join timed out is still alive
    sStream,   \* SpeechToText._stream is an open stream
    sAudio,    \* SpeechToText._audio is a live PyAudio instance
    sModel,    \* SpeechToText._model and _recognizer are loaded
    sPhrase,   \* _last_speech_time, _last_emitted_text, _current_phrase hold a phrase
    sQueue,    \* SpeechToText._result_q
    sEmits,    \* results emitted since the capture session was started
    cTaken,    \* the results iter_results() has yielded in this session
    cDispatched, \* the results handed to on_command in this session
    cCallback, \* how on_command ended in this session: "none" while not called
    cRestarted, \* the outcome of this session's restart of the detector
    sCrashed,  \* a worker of the capture session has ended on an exception
    sLog       \* the results put on the result queue since it was last drained

coVars == <<cPc, cFlag, cIntr, cOutcome, cSessions>>
detVars == <<dRunning, dThread, dZombie, dStream, dAudio, dLeaked>>
sttVars == <<sRunning, sThread, sZombie, sStream, sAudio, sModel, sPhrase, sQueue>>
histVars == <<sEmits, cTaken, cDispatched, cCallback, cRestarted, sCrashed, sLog>>
coordVars == <<coVars, detVars, sttVars, histVars>>

VARIABLES
    pNow,      \* the clock of the processing loop, datetime.utcnow(), in seconds
    pLast,     \* SpeechToText._last_speech_time, NoTime for None
    pEmitted,  \* SpeechToText._last_emitted_text
    pPhrase,   \* SpeechToText._current_phrase
    pOut,      \* the results _emit was called with, in order
    pFrames    \* the recognizer's answers to the frames read: [boundary, text, t]

loopVars == <<pNow, pLast, pEmitted, pPhrase, pOut, pFrames>>

vars == <<cmdVars, askVars, wakeVars, coordVars, loopVars>>

(***************************************************************************)
(* Python string primitives.                                               *)
(***************************************************************************)

\* str.strip() removes leading and trailing whitespace.
Whitespace == {" ", "\t"}

RECURSIVE LStrip(_)
LStrip(s) ==
    IF s # <<>> /\ Head(s) \in Whitespace THEN LStrip(Tail(s)) ELSE s

RECURSIVE RStrip(_)
RStrip(s) ==
    IF s # <<>> /\ s[Len(s)] \in Whitespace
    THEN RStrip(SubSeq(s, 1, Len(s) - 1))
    ELSE s

Strip(s) == RStrip(LStrip(s))

\* str.startswith(prefix)
StartsWith(s, p) == Len(s) >= Len(p) /\ SubSeq(s, 1, Len(p)) = p

\* s[start:-1] for a start >= 0: the characters at 0-based indices
\* start .. len(s)-2.
SliceToLast(s, start) ==
    IF start + 1 <= Len(s) - 1 THEN SubSeq(s, start + 1, Len(s) - 1) ELSE <<>>

\* str.split(sep) for a one-character separator: always at least one piece.
RECURSIVE SplitAcc(_, _, _)
SplitAcc(s, sep, cur) ==
    IF s = <<>> THEN <<cur>>
    ELSE IF Head(s) = sep THEN <<cur>> \o SplitAcc(Tail(s), sep, <<>>)
    ELSE SplitAcc(Tail(s), sep, Append(cur, Head(s)))

Split(s, sep) == SplitAcc(s, sep, <<>>)

\* [f(x) for x in xs if p(x)] with f = strip and p = "strip is non-empty"
RECURSIVE StripNonEmpty(_)
StripNonEmpty(xs) ==
    IF xs = <<>> THEN <<>>
    ELSE IF Strip(Head(xs)) # <<>>
         THEN <<Strip(Head(xs))>> \o StripNonEmpty(Tail(xs))
         ELSE StripNonEmpty(Tail(xs))

(***************************************************************************)
(* The literals of the command language.                                   *)
(***************************************************************************)
ReloadLit  == <<"r","e","l","o","a","d","_","s","e","r","v","e","r","s","(",")">>
ListLit    == <<"l","i","s","t","_","s","e","r","v","e","r","s","(",")">>
InspectLit == <<"i","n","s","p","e","c","t","_","s","e","r","v","e","r","(">>
CallLit    == <<"c","a","l","l","_","s","e","r","v","e","r","_","t","o","o","l","(">>

\* The slice offsets the handlers use to drop the prefix.
InspectSliceStart == 16
CallSliceStart == 17

ReloadThenList == ReloadLit \o <<";", " ">> \o ListLit

(***************************************************************************)
(* The tool service (SuperMCPWrapper).  A call either returns a result,    *)
(* which is modelled as the call itself, or raises.                        *)
(***************************************************************************)
ToolCall(op, args) == [op |-> op, args |-> args]

Ok(call)      == [tag |-> "result", op |-> call.op, args |-> call.args]
Error(msg, a) == [tag |-> "error", op |-> msg, args |-> a]

\* What one command does: the result it appends and the calls it issues.
Outcome(result, calls) == [result |-> result, calls |-> calls]

\* A tool-service call made inside a try whose handler builds `msg`.
Invoke(call, raises, msg) ==
    IF raises THEN Outcome(Error(msg, <<>>), <<call>>)
    ELSE Outcome(Ok(call), <<call>>)

(***************************************************************************)
(* SuperMCPCommandParser (jarvis/core/command_parser.py).                  *)
(***************************************************************************)
RECURSIVE ParseArgsLoop(_, _, _, _)
ParseArgsLoop(content, parts, current_part, brace_count) ==
    IF content = <<>>
    THEN IF current_part # <<>> THEN Append(parts, Strip(current_part)) ELSE parts
    ELSE LET char == Head(content) rest == Tail(content) IN
         IF char = "{"
         THEN ParseArgsLoop(rest, parts, Append(current_part, char), brace_count + 1)
         ELSE IF char = "}"
         THEN ParseArgsLoop(rest, parts, Append(current_part, char), brace_count - 1)
         ELSE IF char = "," /\ brace_count = 0
         THEN ParseArgsLoop(rest, Append(parts, Strip(current_part)), <<>>, brace_count)
         ELSE ParseArgsLoop(rest, parts, Append(current_part, char), brace_count)

\* An argument split on every comma, whatever the brace depth.
_parse_command_arguments_flat(content) ==
    LET xs == Split(content, ",") IN [i \in 1..Len(xs) |-> Strip(xs[i])]

_parse_command_arguments(content) == ParseArgsLoop(content, <<>>, <<>>, 0)

_handle_inspect_server(command, raises) ==
    LET server_name == SliceToLast(command, InspectSliceStart) IN
    Invoke(ToolCall("inspect_server", <<server_name>>), raises,
           "Command execution failed")

_handle_call_server_tool(command, raises) ==
    LET content == SliceToLast(command, CallSliceStart)
        parts == _parse_command_arguments(content)
    IN  IF Len(parts) >= 3
        THEN Invoke(ToolCall("call_server_tool", <<parts[1], parts[2]>>), raises,
                    "Failed to parse call_server_tool")
        ELSE Outcome(Error("Invalid call_server_tool format", <<command>>), <<>>)

_parse_and_execute_command(command, raises) ==
    IF command = ReloadLit
    THEN Invoke(ToolCall("reload_servers", <<>>), raises, "Command execution failed")
    ELSE IF command = ListLit
    THEN Invoke(ToolCall("list_servers", <<>>), raises, "Command execution failed")
    ELSE IF StartsWith(command, InspectLit)
    THEN _handle_inspect_server(command, raises)
    ELSE IF StartsWith(command, CallLit)
    THEN _handle_call_server_tool(command, raises)
    ELSE Outcome(Error("Unknown command", <<command>>), <<>>)

\* The for loop of execute_command_sequence; oracle[i] says whether the
\* tool service raises while the i-th command runs.
RECURSIVE ParserLoop(_, _, _, _)
ParserLoop(commands, i, oracle, acc) ==
    IF i > Len(commands) THEN acc
    ELSE LET o == _parse_and_execute_command(commands[i], oracle[i]) IN
         ParserLoop(commands, i + 1, oracle,
                    [results |-> Append(acc.results, o.result),
                     calls |-> acc.calls \o o.calls])

\* A variant that appends each result at the front of the list.
RECURSIVE ParserLoopPrepending(_, _, _, _)
ParserLoopPrepending(commands, i, oracle, acc) ==
    IF i > Len(commands) THEN acc
    ELSE LET o == _parse_and_execute_command(commands[i], oracle[i]) IN
         ParserLoopPrepending(commands, i + 1, oracle,
                    [results |-> <<o.result>> \o acc.results,
                     calls |-> acc.calls \o o.calls])

\* A variant whose loop ends at the first command that yields an error.
RECURSIVE ParserLoopAborting(_, _, _, _)
ParserLoopAborting(commands, i, oracle, acc) ==
    IF i > Len(commands) THEN acc
    ELSE LET o == _parse_and_execute_command(commands[i], oracle[i]) IN
         IF o.result.tag = "error"
         THEN [results |-> Append(acc.results, o.result), calls |-> acc.calls \o o.calls]
         ELSE ParserLoopAborting(commands, i + 1, oracle,
                    [results |-> Append(acc.results, o.result),
                     calls |-> acc.calls \o o.calls])

execute_command_sequence_aborting(command_sequence, oracle) ==
    LET commands == StripNonEmpty(Split(command_sequence, ";"))
        r == ParserLoopAborting(commands, 1, oracle,
                                [results |-> <<>>, calls |-> <<>>])
    IN  [success |-> TRUE, results |-> r.results, calls |-> r.calls]

execute_command_sequence_prepending(command_sequence, oracle) ==
    LET commands == StripNonEmpty(Split(command_sequence, ";"))
        r == ParserLoopPrepending(commands, 1, oracle,
                                  [results |-> <<>>, calls |-> <<>>])
    IN  [success |-> TRUE, results |-> r.results, calls |-> r.calls]

execute_command_sequence(command_sequence, oracle) ==
    LET commands == StripNonEmpty(Split(command_sequence, ";"))
        r == ParserLoop(commands, 1, oracle, [results |-> <<>>, calls |-> <<>>])
    IN  [success |-> TRUE, results |-> r.results, calls |-> r.calls]

(***************************************************************************)
(* The inline executor of Jarvis (jarvis/main.py), which Jarvis.ask uses.  *)
(***************************************************************************)
RECURSIVE JarvisArgsLoop(_, _, _, _)
JarvisArgsLoop(content, parts, current_part, brace_count) ==
    IF content = <<>>
    THEN IF current_part # <<>> THEN Append(parts, Strip(current_part)) ELSE parts
    ELSE LET char == Head(content) rest == Tail(content) IN
         IF char = "{"
         THEN JarvisArgsLoop(rest, parts, Append(current_part, char), brace_count + 1)
         ELSE IF char = "}"
         THEN JarvisArgsLoop(rest, parts, Append(current_part, char), brace_count - 1)
         ELSE IF char = "," /\ brace_count = 0
         THEN JarvisArgsLoop(rest, Append(parts, Strip(current_part)), <<>>, brace_count)
         ELSE JarvisArgsLoop(rest, parts, Append(current_part, char), brace_count)

Jarvis_parse_and_execute_command(command, raises) ==
    IF command = ReloadLit
    THEN Invoke(ToolCall("reload_servers", <<>>), raises, "Command execution failed")
    ELSE IF command = ListLit
    THEN Invoke(ToolCall("list_servers", <<>>), raises, "Command execution failed")
    ELSE IF StartsWith(command, InspectLit)
    THEN LET server_name == SliceToLast(command, InspectSliceStart) IN
         Invoke(ToolCall("inspect_server", <<server_name>>), raises,
                "Command execution failed")
    ELSE IF StartsWith(command, CallLit)
    THEN LET content == SliceToLast(command, CallSliceStart)
             parts == JarvisArgsLoop(content, <<>>, <<>>, 0)
         IN  IF Len(parts) >= 3
             THEN Invoke(ToolCall("call_server_tool", <<parts[1], parts[2]>>), raises,
                         "Failed to parse call_server_tool")
             ELSE Outcome(Error("Invalid call_server_tool format", <<command>>), <<>>)
    ELSE Outcome(Error("Unknown command", <<command>>), <<>>)

RECURSIVE JarvisLoop(_, _, _, _)
JarvisLoop(commands, i, oracle, acc) ==
    IF i > Len(commands) THEN acc
    ELSE LET o == Jarvis_parse_and_execute_command(commands[i], oracle[i]) IN
         JarvisLoop(commands, i + 1, oracle,
                    [results |-> Append(acc.results, o.result),
                     calls |-> acc.calls \o o.calls])

Jarvis_execute_supermcp_commands(command_sequence, oracle) ==
    LET commands == StripNonEmpty(Split(command_sequence, ";"))
        r == JarvisLoop(commands, 1, oracle, [results |-> <<>>, calls |-> <<>>])
    IN  [success |-> TRUE, results |-> r.results, calls |-> r.calls]

(***************************************************************************)
(* The command executors applied to bounded inputs.  An input is written   *)
(* from a sequence of segments joined by ';'; the executors only see the   *)
(* text.                                                                   *)
(***************************************************************************)
MaxSegs == 2

ServerNames == { <<>>, <<"a">>, <<"F","o","o">> }
ToolNames   == { <<"b","a","r">> }
ArgsLit     == <<"{","a",":"," ","1",","," ","b",":"," ","2","}">>
BogusLit    == <<"b","o","g","u","s","(",")">>

Cores ==
    { [kind |-> "reload", args |-> <<>>, text |-> ReloadLit],
      [kind |-> "list", args |-> <<>>, text |-> ListLit],
      [kind |-> "unknown", args |-> <<>>, text |-> BogusLit],
      [kind |-> "blank", args |-> <<>>, text |-> <<>>] }
    \cup { [kind |-> "inspect", args |-> <<n>>, text |-> InspectLit \o n \o <<")">>]
            : n \in ServerNames }
    \cup { [kind |-> "call", args |-> <<s, t>>,
             text |-> CallLit \o s \o <<",", " ">> \o t \o <<",", " ">>
                      \o ArgsLit \o <<")">>]
            : s \in ServerNames, t \in ToolNames }

Pads == { [l |-> <<>>, r |-> <<>>], [l |-> <<" ">>, r |-> <<>>],
          [l |-> <<" ">>, r |-> <<"\t">>] }

CmdSegments ==
    { [kind |-> c.kind, args |-> c.args, text |-> p.l \o c.text \o p.r]
      : c \in Cores, p \in Pads }

RECURSIVE Join(_, _)
Join(texts, sep) ==
    IF texts = <<>> THEN <<>>
    ELSE IF Len(texts) = 1 THEN texts[1]
    ELSE texts[1] \o <<sep>> \o Join(Tail(texts), sep)

Render(segs) == Join([i \in 1..Len(segs) |-> segs[i].text], ";")

SegSeqs == UNION { [1..n -> CmdSegments] : n \in 1..MaxSegs }

NoOut == [success |-> FALSE, results |-> <<>>, calls |-> <<>>]

CmdIdle ==
    /\ cmdSegs = <<>>
    /\ cmdText = <<>>
    /\ cmdPc = "off"
    /\ cmdImpl = "none"
    /\ cmdOracle = [i \in 1..MaxSegs |-> FALSE]
    /\ cmdOut = NoOut

CmdStart ==
    /\ cmdSegs \in SegSeqs
    /\ cmdText = Render(cmdSegs)
    /\ cmdPc = "ready"
    /\ cmdImpl = "none"
    /\ cmdOracle = [i \in 1..MaxSegs |-> FALSE]
    /\ cmdOut = NoOut

RunParser ==
    /\ cmdPc = "ready"
    /\ \E oracle \in [1..MaxSegs -> BOOLEAN] :
          /\ cmdOracle' = oracle
          /\ cmdOut' = execute_command_sequence(cmdText, oracle)
    /\ cmdImpl' = "parser"
    /\ cmdPc' = "done"
    /\ UNCHANGED <<cmdSegs, cmdText, askVars, wakeVars, coordVars, loopVars>>

RunJarvis ==
    /\ cmdPc = "ready"
    /\ \E oracle \in [1..MaxSegs -> BOOLEAN] :
          /\ cmdOracle' = oracle
          /\ cmdOut' = Jarvis_execute_supermcp_commands(cmdText, oracle)
    /\ cmdImpl' = "jarvis"
    /\ cmdPc' = "done"
    /\ UNCHANGED <<cmdSegs, cmdText, askVars, wakeVars, coordVars, loopVars>>

CmdNext == RunParser \/ RunJarvis

(***************************************************************************)
(* The command executors applied to command sequences as a model may       *)
(* write them: pieces joined by ';', among them well-formed commands,      *)
(* commands cut short or with unbalanced braces, and call_server_tool      *)
(* commands whose {...} argument holds a ';'.                              *)
(***************************************************************************)
\* {...} arguments with a ';' between the braces.
SemiArgs ==
    { <<"{","a",";","b","}">>,
      <<"{","a",":"," ","1",";"," ","b",":"," ","2","}">> }

CallText(s, t, a) ==
    CallLit \o s \o <<",", " ">> \o t \o <<",", " ">> \o a \o <<")">>

RawPieces ==
    { [kind |-> "reload", args |-> <<>>, text |-> ReloadLit],
      [kind |-> "list", args |-> <<>>, text |-> <<" ">> \o ListLit \o <<"\t">>],
      [kind |-> "unknown", args |-> <<>>, text |-> BogusLit],
      [kind |-> "blank", args |-> <<>>, text |-> <<" ">>],
      [kind |-> "inspect", args |-> << <<"F","o","o">> >>,
       text |-> InspectLit \o <<"F","o","o",")">>],
      [kind |-> "malformed", args |-> <<>>, text |-> InspectLit],
      [kind |-> "call", args |-> << <<"a">>, <<"b","a","r">> >>,
       text |-> CallText(<<"a">>, <<"b","a","r">>, ArgsLit)],
      [kind |-> "malformed", args |-> <<>>,
       text |-> CallLit \o <<"a",","," ","{","b",","," ","c","}",")">>],
      [kind |-> "malformed", args |-> <<>>,
       text |-> CallLit \o <<"a","}",","," ","b",","," ","c",")">>] }
    \cup { [kind |-> "semicall", args |-> << <<"a">>, t >>,
            text |-> CallText(<<"a">>, t, a)] : t \in ToolNames, a \in SemiArgs }

\* The sequences of pieces that split into at most MaxSegs commands.
RawSeqs ==
    { q \in UNION { [1..n -> RawPieces] : n \in 1..MaxSegs } :
        Len(Split(Render(q), ";")) <= MaxSegs }

RawStart ==
    /\ cmdSegs \in RawSeqs
    /\ cmdText = Render(cmdSegs)
    /\ cmdPc = "ready"
    /\ cmdImpl = "none"
    /\ cmdOracle = [i \in 1..MaxSegs |-> FALSE]
    /\ cmdOut = NoOut

(***************************************************************************)
(* The dialog loop: LLM (jarvis/llm.py) and Jarvis.ask (jarvis/main.py).   *)
(*                                                                         *)
(* A message is [role, kind, n, out]: kind "prompt" with the number n of   *)
(* the ask() it came from, kind "corrective" for the fixed retry           *)
(* instruction, kind "tool" with the executor output that json.dumps       *)
(* serialized.  Only user and system messages are ever appended.           *)
(***************************************************************************)
MaxReplies == 3
MaxAsks == 2
MaxSpins == 2

Msg(role, kind, n, out) == [role |-> role, kind |-> kind, n |-> n, out |-> out]

\* LLM.__init__: the single system message built from Config.LLM_RULE.
default_chat == << Msg("system", "system", 0, NoOut) >>

PromptMsg(n) == Msg("user", "prompt", n, NoOut)

\* A retry that sends the first prompt again.
CorrectiveMsgResendingPrompt == Msg("user", "prompt", 1, NoOut)

\* LLM.ask, the except branch: self.ask("The JSON text you provided")
CorrectiveMsg == Msg("user", "corrective", 0, NoOut)

\* Jarvis.ask: self.llm.ask(dumps(supermcp_output))
ToolMsg(out) == Msg("user", "tool", 0, out)

\* A reset that empties the session, the system message included.
reset_history_clearing == <<>>

\* LLM.reset_history
reset_history == default_chat

(***************************************************************************)
(* A model reply, as json.loads sees it.  shape "invalid_json" raises      *)
(* JSONDecodeError; "nonobject" is valid JSON that is not an object (a     *)
(* list, a number, a string, null); "object" is a JSON object, which may   *)
(* lack either key, carry another tag, or carry an output that is not a    *)
(* string.  text names a conversational answer, cmd is a command sequence. *)
(***************************************************************************)
Reply(shape, has_ur, ur, has_out, out_is_str, text, cmd) ==
    [shape |-> shape, has_ur |-> has_ur, ur |-> ur, has_out |-> has_out,
     out_is_str |-> out_is_str, text |-> text, cmd |-> cmd]

NoReply == Reply("none", FALSE, "", FALSE, FALSE, "", <<>>)

ToolOutputs == { ReloadThenList }

Replies ==
    { Reply("invalid_json", FALSE, "", FALSE, FALSE, "", <<>>),
      Reply("nonobject", FALSE, "", FALSE, FALSE, "", <<>>),
      Reply("object", TRUE, "Conversation", TRUE, TRUE, "hi", <<>>),
      Reply("object", TRUE, "Conversation", FALSE, FALSE, "", <<>>),
      Reply("object", FALSE, "", TRUE, TRUE, "hi", <<>>),
      Reply("object", TRUE, "Tool", TRUE, TRUE, "hi", <<>>),
      Reply("object", TRUE, "SuperMCP", FALSE, FALSE, "", <<>>),
      Reply("object", TRUE, "SuperMCP", TRUE, FALSE, "", <<>>) }
    \cup { Reply("object", TRUE, "SuperMCP", TRUE, TRUE, "", c) : c \in ToolOutputs }

\* json.loads(response) returns (does not raise JSONDecodeError)
JsonLoads(r) == r.shape # "invalid_json"

\* response['user_request'] evaluates (no KeyError, no TypeError)
HasUserRequest(r) == r.shape = "object" /\ r.has_ur

\* response['output'] evaluates
HasOutput(r) == r.shape = "object" /\ r.has_out

\* A loop that goes on only for tool requests.
LoopExitsUnlessTool(r) == r.ur # "SuperMCP"

\* Jarvis.ask: while response['user_request'] != "Conversation"
LoopExits(r) == r.ur = "Conversation"

\* Jarvis.ask: if response['user_request'] == "SuperMCP"
IsToolRequest(r) == r.ur = "SuperMCP"

\* An executor call that is skipped.
RunExecutorSkipped(r, oracle) == [success |-> FALSE, results |-> <<>>, calls |-> <<>>]

\* Jarvis._execute_supermcp_commands on response['output']: an output that
\* is not a string has no split(), and the outer except reports it.
RunExecutor(r, oracle) ==
    IF r.out_is_str THEN Jarvis_execute_supermcp_commands(r.cmd, oracle)
    ELSE [success |-> FALSE, results |-> <<>>, calls |-> <<>>]

\* Jarvis.ask after the loop: the history reset.
HistoryAfterAsk(h, flag) == reset_history

\* Jarvis.ask after the loop: the output by Config.OUTPUT_MODE.
Sinks(mode, r) ==
    IF mode = "voice" THEN << [sink |-> "voice", text |-> r.text] >>
    ELSE IF mode = "text" THEN << [sink |-> "text", text |-> r.text] >>
    ELSE <<>>

ReadsOutput(mode) == mode \in {"voice", "text"}

\* What Jarvis.ask does with one model reply, from the reply to the next
\* model call, the return or the exception.
Step(pc, history, result, tools, sink, spin) ==
    [pc |-> pc, history |-> history, result |-> result, tools |-> tools,
     sink |-> sink, spin |-> spin]

AskStep(h, r, oracle, flag, mode) ==
    IF ~JsonLoads(r)
    THEN Step("chat", Append(h, CorrectiveMsg), NoReply, <<>>, <<>>, FALSE)
    ELSE IF ~HasUserRequest(r)
    THEN Step("raised", h, NoReply, <<>>, <<>>, FALSE)
    ELSE IF LoopExits(r)
    THEN IF ReadsOutput(mode) /\ ~HasOutput(r)
         THEN Step("raised", HistoryAfterAsk(h, flag), NoReply, <<>>, <<>>, FALSE)
         ELSE Step("returned", HistoryAfterAsk(h, flag), r, <<>>, Sinks(mode, r), FALSE)
    ELSE IF IsToolRequest(r)
    THEN IF ~HasOutput(r)
         THEN Step("raised", h, NoReply, <<>>, <<>>, FALSE)
         ELSE LET out == RunExecutor(r, oracle) IN
              Step("chat", Append(h, ToolMsg(out)), NoReply,
                   << [cmd |-> r.cmd, out |-> out] >>, <<>>, FALSE)
    ELSE Step("spin", h, NoReply, <<>>, <<>>, TRUE)

AskIdle ==
    /\ cfgReset = TRUE
    /\ cfgMode = "voice"
    /\ askPc = "off"
    /\ askNo = 0
    /\ chat_history = default_chat
    /\ replyLog = <<>>
    /\ replies = 0
    /\ callLog = <<>>
    /\ toolLog = <<>>
    /\ askResult = NoReply
    /\ sinkLog = <<>>
    /\ spins = 0
    /\ prevDone = FALSE

OutputModes == {"voice", "text", "silent"}

AskStart ==
    /\ cfgReset \in BOOLEAN
    /\ cfgMode \in OutputModes
    /\ askPc = "idle"
    /\ askNo = 0
    /\ chat_history = default_chat
    /\ replyLog = <<>>
    /\ replies = 0
    /\ callLog = <<>>
    /\ toolLog = <<>>
    /\ askResult = NoReply
    /\ sinkLog = <<>>
    /\ spins = 0
    /\ prevDone = FALSE

\* Jarvis.ask(prompt) is called: LLM.ask appends the prompt and calls the model.
StartAsk ==
    /\ askPc \in {"idle", "returned", "raised"}
    /\ askNo < MaxAsks
    /\ askNo' = askNo + 1
    /\ chat_history' = Append(chat_history, PromptMsg(askNo + 1))
    /\ callLog' = << Append(chat_history, PromptMsg(askNo + 1)) >>
    /\ replyLog' = <<>>
    /\ toolLog' = <<>>
    /\ askResult' = NoReply
    /\ sinkLog' = <<>>
    /\ spins' = 0
    /\ prevDone' = (askPc = "returned")
    /\ askPc' = "chat"
    /\ UNCHANGED <<cfgReset, cfgMode, replies, cmdVars, loopVars, wakeVars, coordVars>>

\* The model replies; ask() runs up to its next model call, return or raise.
ModelReply ==
    /\ askPc = "chat"
    /\ replies < MaxReplies
    /\ replies' = replies + 1
    /\ \E r \in Replies, oracle \in [1..MaxSegs -> BOOLEAN] :
         LET s == AskStep(chat_history, r, oracle, cfgReset, cfgMode) IN
         /\ replyLog' = Append(replyLog, r)
         /\ askPc' = s.pc
         /\ chat_history' = s.history
         /\ callLog' = IF s.pc = "chat" THEN Append(callLog, s.history) ELSE callLog
         /\ toolLog' = toolLog \o s.tools
         /\ askResult' = s.result
         /\ sinkLog' = sinkLog \o s.sink
         /\ spins' = IF s.spin THEN 1 ELSE 0
    /\ UNCHANGED <<cfgReset, cfgMode, askNo, prevDone, cmdVars, loopVars, wakeVars, coordVars>>

\* The while loop of ask() goes round on a reply that is neither
\* "Conversation" nor "SuperMCP": the condition holds, the if does not.
Spin ==
    /\ askPc = "spin"
    /\ spins < MaxSpins
    /\ spins' = spins + 1
    /\ UNCHANGED <<cfgReset, cfgMode, askPc, askNo, chat_history, replyLog, replies, callLog,
                   toolLog, askResult, sinkLog, prevDone, cmdVars, loopVars, wakeVars, coordVars>>

AskNext == StartAsk \/ ModelReply \/ Spin

(***************************************************************************)
(* The wake-word detector (jarvis/voice_activation.py), scanning the       *)
(* transcript events of its listening thread one at a time.                *)
(***************************************************************************)
MaxEvents == 3
MaxTicks == 2
MaxStarts == 2

\* _check_for_wake_word: if current_time - self._last_detection_time < 2.0
Debounce == 2

\* str.lower() on the letters of the model's alphabet.
LowerChar(c) ==
    CASE c = "J" -> "j"
      [] c = "H" -> "h"
      [] OTHER -> c

Lower(s) == [i \in 1..Len(s) |-> LowerChar(s[i])]

\* word in text
Contains(text, word) ==
    \E i \in 0..(Len(text) - Len(word)) : SubSeq(text, i + 1, i + Len(word)) = word

\* Config.WAKE_WORDS as configured, and VoiceActivation.wake_words as
\* __init__ keeps them: [word.lower() for word in wake_words].
WakeWordsConfig == << <<"H","j">>, <<"J">> >>

wake_words == [i \in 1..Len(WakeWordsConfig) |-> Lower(WakeWordsConfig[i])]

\* The raw texts the recognizer reports, partial or final.
Texts ==
    { <<>>, <<" ">>, <<"x">>, <<"x","J"," ">>, <<"H","j">> }

\* The same scan without the break: the last configured phrase contained in
\* the text wins.
RECURSIVE LastMatch(_, _, _)
LastMatch(words, text, i) ==
    IF i > Len(words) THEN 0
    ELSE LET later == LastMatch(words, text, i + 1) IN
         IF later # 0 THEN later
         ELSE IF Contains(text, words[i]) THEN i ELSE 0

\* for wake_word in self.wake_words: if wake_word in text: ...; break
RECURSIVE FirstMatch(_, _, _)
FirstMatch(words, text, i) ==
    IF i > Len(words) THEN 0
    ELSE IF Contains(text, words[i]) THEN i
    ELSE FirstMatch(words, text, i + 1)

\* What a call of self.on_wake_word() does: it returns or raises an Exception.
CallbackOutcomes == {"returns", "Exception"}

\* The detector's state as one iteration of the loop sees it, with what the
\* callback will do when called and whether an exception left the handler.
Detector(last, count, queue, callbacks, on_wake_word) ==
    [last |-> last, count |-> count, queue |-> queue, callbacks |-> callbacks,
     on_wake_word |-> on_wake_word, escaped |-> FALSE]

\* try: self.on_wake_word() without an except clause that matches.
TryOnWakeWordUncaught(outcome) == outcome # "returns"

\* try: self.on_wake_word() / except Exception: print(...). TRUE when an
\* exception leaves the try statement.
TryOnWakeWord(outcome) == outcome # "returns" /\ outcome \notin {"Exception"}

\* The handler without self._last_detection_time = current_time.
_handle_wake_word_detection_untimed(d, wake_word, full_text, current_time) ==
    [d EXCEPT !.count = d.count + 1,
              !.queue = Append(d.queue, [wake_word |-> wake_word, full_text |-> full_text,
                                         timestamp |-> current_time, count |-> d.count + 1]),
              !.callbacks = d.callbacks + 1,
              !.escaped = TryOnWakeWord(d.on_wake_word)]

\* _handle_wake_word_detection: count, timestamp, enqueue, callback (an
\* exception of the callback is caught and printed).
_handle_wake_word_detection(d, wake_word, full_text, current_time) ==
    [d EXCEPT !.count = d.count + 1,
              !.last = current_time,
              !.queue = Append(d.queue, [wake_word |-> wake_word, full_text |-> full_text,
                                         timestamp |-> current_time, count |-> d.count + 1]),
              !.callbacks = d.callbacks + 1,
              !.escaped = TryOnWakeWord(d.on_wake_word)]

\* A debounce test one second short of the window.
InDebounceShort(current_time, last) == current_time - last < Debounce - 1

\* The debounce test of _check_for_wake_word.
InDebounce(current_time, last) == current_time - last < Debounce

_check_for_wake_word(d, text, current_time) ==
    IF InDebounce(current_time, d.last) THEN d
    ELSE LET m == FirstMatch(wake_words, text, 1) IN
         IF m = 0 THEN d
         ELSE _handle_wake_word_detection(d, wake_words[m], text, current_time)

\* One iteration of _listen_loop on a recognizer result: the final text or
\* the partial text, lower-cased and stripped, is scanned if non-empty.
ScanResult(d, raw, current_time) ==
    LET text == Strip(Lower(raw)) IN
    IF text # <<>> THEN _check_for_wake_word(d, text, current_time) ELSE d

WakeIdle ==
    /\ wNow = 0
    /\ wRunning = FALSE
    /\ wThread = FALSE
    /\ wStream = FALSE
    /\ wStarts = 0
    /\ wLast = 0
    /\ wCount = 0
    /\ wQueue = <<>>
    /\ wCallbacks = 0
    /\ wFired = <<>>
    /\ wEvents = <<>>
    /\ gPc = "idle"
    /\ gLog = <<>>
    /\ wRaised = FALSE

\* VoiceActivation.__init__; the clock reads at least Debounce seconds, as
\* time.time() does against the initial _last_detection_time = 0.0.
WakeStart ==
    /\ wNow = Debounce
    /\ wRunning = FALSE
    /\ wThread = FALSE
    /\ wStream = FALSE
    /\ wStarts = 0
    /\ wLast = 0
    /\ wCount = 0
    /\ wQueue = <<>>
    /\ wCallbacks = 0
    /\ wFired = <<>>
    /\ wEvents = <<>>
    /\ gPc = "idle"
    /\ gLog = <<>>
    /\ wRaised = FALSE

\* Time passes.
WakeTick ==
    /\ wNow < Debounce + MaxTicks
    /\ wNow' = wNow + 1
    /\ UNCHANGED <<wRunning, wThread, wStream, wStarts, wLast, wCount, wQueue, wCallbacks,
                   wFired, wEvents, gPc, gLog, wRaised, cmdVars, loopVars, askVars, coordVars>>

\* start_listening(): a no-op while running; otherwise the stream is opened
\* and the thread started, or the open fails and False is returned.
WakeStartListening ==
    /\ ~wRunning
    /\ wStarts < MaxStarts
    /\ \E ok \in BOOLEAN :
         IF ok
         THEN /\ wRunning' = TRUE /\ wThread' = TRUE /\ wStream' = TRUE
              /\ wStarts' = wStarts + 1
         ELSE UNCHANGED <<wRunning, wThread, wStream, wStarts>>
    /\ UNCHANGED <<wNow, wLast, wCount, wQueue, wCallbacks, wFired, wEvents,
                   gPc, gLog, wRaised, cmdVars, loopVars, askVars, coordVars>>

\* stop_listening(): a no-op unless running; the flag is cleared, the thread
\* (between two iterations) sees it and ends, the stream is closed.
WakeStopListening ==
    /\ wRunning
    /\ wRunning' = FALSE
    /\ wThread' = FALSE
    /\ wStream' = FALSE
    /\ UNCHANGED <<wNow, wStarts, wLast, wCount, wQueue, wCallbacks, wFired, wEvents,
                   gPc, gLog, wRaised, cmdVars, loopVars, askVars, coordVars>>

\* _listen_loop: one frame is read and its partial or final text scanned;
\* an accepted detection calls the callback, which returns or raises. An
\* exception that left the handler would end the loop (except/finally).
WakeEvent ==
    /\ wRunning /\ wThread
    /\ Len(wEvents) < MaxEvents
    /\ \E raw \in Texts, partial \in BOOLEAN, on_wake_word \in CallbackOutcomes :
         LET d == ScanResult(Detector(wLast, wCount, wQueue, wCallbacks, on_wake_word),
                             raw, wNow)
             fired == Len(d.queue) > Len(wQueue)
         IN  /\ fired \/ on_wake_word = "returns"
             /\ wRunning' = (wRunning /\ ~d.escaped)
             /\ wThread' = (wThread /\ ~d.escaped)
             /\ wLast' = d.last
             /\ wCount' = d.count
             /\ wQueue' = d.queue
             /\ wCallbacks' = d.callbacks
             /\ wFired' = IF fired THEN Append(wFired, wNow) ELSE wFired
             /\ wEvents' = Append(wEvents,
                                  [t |-> wNow, partial |-> partial,
                                   session |-> IF fired THEN wStarts ELSE 0,
                                   match |-> \E i \in 1..Len(WakeWordsConfig) :
                                       Contains(Lower(raw), Lower(WakeWordsConfig[i])),
                                   fired |-> fired])
             /\ wRaised' = (fired /\ on_wake_word = "Exception")
    /\ UNCHANGED <<wNow, wStream, wStarts, gPc, gLog, cmdVars, loopVars, askVars, coordVars>>

\* _listen_loop: a read or decode exception ends the loop; finally clears
\* the running flag.
WakeLoopError ==
    /\ wRunning /\ wThread
    /\ wRunning' = FALSE
    /\ wThread' = FALSE
    /\ UNCHANGED <<wNow, wStream, wStarts, wLast, wCount, wQueue, wCallbacks, wFired, wEvents,
                   gPc, gLog, wRaised, cmdVars, loopVars, askVars, coordVars>>

\* The bounds of the get_activation() runs.
MaxPuts == 3
MaxGets == 3

\* The timeouts a caller passes: None (the default) or a number of seconds.
Timeouts == {"None", "1.0"}

\* Python's None.
None == <<>>

\* Queue.get(block=True, timeout): with an entry on the queue it returns the
\* oldest at once; on an empty queue it waits for one, for ever when timeout
\* is None, and raises Empty when a numeric timeout has run out.
QueueGet(queue, timeout) ==
    IF queue # <<>> THEN [does |-> "returns", item |-> Head(queue)]
    ELSE IF timeout = "None" THEN [does |-> "blocks"]
    ELSE [does |-> "Empty"]

\* get_activation: return self._activation_queue.get(timeout=timeout), or
\* None on Empty.
get_activation(queue, timeout) ==
    LET got == QueueGet(queue, timeout) IN
    IF got.does = "returns" THEN [does |-> "returns", result |-> <<got.item>>]
    ELSE IF got.does = "Empty" THEN [does |-> "returns", result |-> None]
    ELSE [does |-> "blocks"]

\* The listening thread accepts a detection and puts the activation.
GetPut ==
    /\ wCount < MaxPuts
    /\ LET d == _handle_wake_word_detection(
                    Detector(wLast, wCount, wQueue, wCallbacks, "returns"),
                    wake_words[1], wake_words[1], wNow)
       IN  /\ wLast' = d.last
           /\ wCount' = d.count
           /\ wQueue' = d.queue
           /\ wCallbacks' = d.callbacks
    /\ UNCHANGED <<wNow, wRunning, wThread, wStream, wStarts, wFired, wEvents, gPc, gLog, wRaised,
                   cmdVars, loopVars, askVars, coordVars>>

\* A thread calls get_activation(timeout): it returns an activation or None,
\* or stays inside Queue.get(). The result is None or the activation, held
\* as a sequence of no or one element.
GetActivation ==
    /\ gPc = "idle"
    /\ Len(gLog) < MaxGets
    /\ \E timeout \in Timeouts :
         LET got == get_activation(wQueue, timeout) IN
         IF got.does = "returns"
         THEN /\ gLog' = Append(gLog, [timeout |-> timeout, result |-> got.result,
                                       waited |-> FALSE])
              /\ wQueue' = IF wQueue # <<>> THEN Tail(wQueue) ELSE wQueue
              /\ gPc' = gPc
         ELSE /\ gPc' = "blocked"
              /\ UNCHANGED <<gLog, wQueue>>
    /\ UNCHANGED <<wNow, wRunning, wThread, wStream, wStarts, wLast, wCount, wCallbacks,
                   wFired, wEvents, wRaised, cmdVars, loopVars, askVars, coordVars>>

\* The caller inside Queue.get(timeout=None) is woken by a put.
GetWoken ==
    /\ gPc = "blocked"
    /\ wQueue # <<>>
    /\ gPc' = "idle"
    /\ gLog' = Append(gLog, [timeout |-> "None", result |-> <<Head(wQueue)>>,
                            waited |-> TRUE])
    /\ wQueue' = Tail(wQueue)
    /\ UNCHANGED <<wNow, wRunning, wThread, wStream, wStarts, wLast, wCount, wCallbacks,
                   wFired, wEvents, wRaised, cmdVars, loopVars, askVars, coordVars>>

GetNext ==
    \/ GetPut
    \/ GetActivation
    \/ GetWoken

WakeNext ==
    \/ WakeTick
    \/ WakeStartListening
    \/ WakeStopListening
    \/ WakeEvent
    \/ WakeLoopError

(***************************************************************************)
(* The voice coordinator (jarvis/core/voice_manager.py) with the detector's *)
(* listening thread and the capture session's worker thread.               *)
(***************************************************************************)
MaxSessions == 2
MaxQueue == 2
MaxEmits == 2

CoordIdle ==
    /\ cPc = "off" /\ cFlag = FALSE /\ cIntr = FALSE /\ cOutcome = "none" /\ cSessions = 0
    /\ dRunning = FALSE /\ dThread = "none" /\ dZombie = FALSE
    /\ dStream = FALSE /\ dAudio = FALSE /\ dLeaked = 0
    /\ sRunning = FALSE /\ sThread = "none" /\ sZombie = FALSE
    /\ sStream = FALSE /\ sAudio = FALSE /\ sQueue = <<>>
    /\ sModel = FALSE /\ sPhrase = FALSE
    /\ sEmits = 0 /\ cTaken = <<>> /\ cDispatched = <<>> /\ cRestarted = "none"
    /\ cCallback = "none"
    /\ sCrashed = FALSE /\ sLog = <<>>

\* VoiceManager.__init__
CoordStart ==
    /\ cPc = "init" /\ cFlag = FALSE /\ cIntr = FALSE /\ cOutcome = "none" /\ cSessions = 0
    /\ dRunning = FALSE /\ dThread = "none" /\ dZombie = FALSE
    /\ dStream = FALSE /\ dAudio = FALSE /\ dLeaked = 0
    /\ sRunning = FALSE /\ sThread = "none" /\ sZombie = FALSE
    /\ sStream = FALSE /\ sAudio = FALSE /\ sQueue = <<>>
    /\ sModel = FALSE /\ sPhrase = FALSE
    /\ sEmits = 0 /\ cTaken = <<>> /\ cDispatched = <<>> /\ cRestarted = "none"
    /\ cCallback = "none"
    /\ sCrashed = FALSE /\ sLog = <<>>

\* start_listening() as it would be if the flag were set before the device
\* is opened and left set when the open fails.
start_listening_flag_first(ok) ==
    IF dRunning THEN UNCHANGED detVars
    ELSE IF ok
    THEN /\ dRunning' = TRUE
         /\ dThread' = "loop"
         /\ dStream' = TRUE
         /\ dAudio' = TRUE
         /\ dLeaked' = IF dStream THEN dLeaked + 1 ELSE dLeaked
         /\ UNCHANGED dZombie
    ELSE /\ dRunning' = TRUE
         /\ dAudio' = TRUE
         /\ UNCHANGED <<dThread, dZombie, dStream, dLeaked>>

\* VoiceActivation.start_listening(): True at once while running; otherwise
\* a new PyAudio instance and stream replace the ones the object refers to
\* and the thread starts, or the open raises, stop_listening() returns at
\* once (the flag is clear) and False is returned.
start_listening(ok) ==
    IF dRunning THEN UNCHANGED detVars
    ELSE IF ok
    THEN /\ dRunning' = TRUE
         /\ dThread' = "loop"
         /\ dStream' = TRUE
         /\ dAudio' = TRUE
         /\ dLeaked' = IF dStream THEN dLeaked + 1 ELSE dLeaked
         /\ UNCHANGED dZombie
    ELSE /\ dAudio' = TRUE
         /\ UNCHANGED <<dRunning, dThread, dZombie, dStream, dLeaked>>

\* VoiceActivation.stop_listening(), up to the join: nothing at all unless
\* the flag is set; otherwise the flag is cleared.
stop_listening_begin(fromPc, joinPc, nextPc) ==
    /\ cPc = fromPc
    /\ IF dRunning
       THEN /\ dRunning' = FALSE
            /\ cPc' = joinPc
            /\ UNCHANGED <<dThread, dZombie, dStream, dAudio, dLeaked>>
       ELSE /\ cPc' = nextPc
            /\ UNCHANGED detVars

\* VoiceActivation.stop_listening(), from the join on: join(timeout=2.0)
\* returns with the thread ended or still alive, the reference is dropped,
\* the stream closed and PyAudio terminated.
stop_listening_finish(joinPc, nextPc) ==
    /\ cPc = joinPc
    /\ cPc' = nextPc
    /\ dZombie' = (dZombie \/ dThread = "loop")
    /\ dThread' = "none"
    /\ dStream' = FALSE
    /\ dAudio' = FALSE
    /\ UNCHANGED <<dRunning, dLeaked>>

\* start_voice_activation_mode: the detector is started, or False is
\* returned through finally: cleanup().
CoStart ==
    /\ cPc = "init"
    /\ \E ok \in BOOLEAN :
         /\ start_listening(ok)
         /\ cPc' = IF ok THEN "poll" ELSE "cleanup"
         /\ cOutcome' = IF ok THEN cOutcome ELSE "false"
    /\ UNCHANGED <<cFlag, cIntr, cSessions, sttVars, cmdVars, loopVars, askVars, wakeVars, histVars>>

\* A frame scanned by a listening thread: an accepted detection goes through
\* _handle_wake_word_detection, which counts it, puts the activation on the
\* queue and calls _on_wake_word_detected, which sets the flag.
Detection(detected) ==
    IF detected
    THEN /\ wCount < MaxPuts
         /\ LET d == _handle_wake_word_detection(
                         Detector(wLast, wCount, wQueue, wCallbacks, "returns"),
                         wake_words[1], wake_words[1], wNow)
            IN  /\ wLast' = d.last
                /\ wCount' = d.count
                /\ wQueue' = d.queue
                /\ wCallbacks' = d.callbacks
         /\ cFlag' = TRUE
         /\ UNCHANGED <<wNow, wRunning, wThread, wStream, wStarts, wFired, wEvents, gPc, gLog, wRaised>>
    ELSE UNCHANGED <<cFlag, wakeVars>>

\* _listen_loop: a frame is read and scanned; a detection runs the callback
\* _on_wake_word_detected, which sets the flag.
DetectorScan ==
    /\ dThread = "loop" /\ dRunning
    /\ \E detected \in BOOLEAN : Detection(detected)
    /\ UNCHANGED <<cPc, cIntr, cOutcome, cSessions, detVars, sttVars, cmdVars, loopVars,
                   askVars, histVars>>

\* _listen_loop: an exception ends the loop; finally clears the flag.
DetectorCrash ==
    /\ dThread = "loop" /\ dRunning
    /\ dRunning' = FALSE
    /\ dThread' = "dead"
    /\ UNCHANGED <<dZombie, dStream, dAudio, dLeaked, coVars, sttVars,
                   cmdVars, loopVars, askVars, wakeVars, histVars>>

\* _listen_loop: the loop sees the flag cleared and ends.
DetectorExit ==
    /\ dThread = "loop" /\ ~dRunning
    /\ dThread' = "dead"
    /\ UNCHANGED <<dRunning, dZombie, dStream, dAudio, dLeaked, coVars,
                   sttVars, cmdVars, loopVars, askVars, wakeVars, histVars>>

\* A listening thread that outlived its join finishes the iteration it was
\* in, a detection setting the flag, and goes on while the flag is set.
ZombieScan ==
    /\ dZombie
    /\ \E detected \in BOOLEAN : Detection(detected)
    /\ dZombie' = dRunning
    /\ UNCHANGED <<cPc, cIntr, cOutcome, cSessions, dRunning, dThread, dStream, dAudio, dLeaked,
                   sttVars, cmdVars, loopVars, askVars, histVars>>

\* A listening thread that outlived its join ends on the exception of its
\* read; finally clears the flag.
ZombieExit ==
    /\ dZombie
    /\ dZombie' = FALSE
    /\ dRunning' = FALSE
    /\ UNCHANGED <<dThread, dStream, dAudio, dLeaked, coVars, sttVars,
                   cmdVars, loopVars, askVars, wakeVars, histVars>>

\* The polling loop: a set flag is reset and _process_voice_command entered.
CoPoll ==
    /\ cPc = "poll"
    /\ cFlag
    /\ cSessions < MaxSessions
    /\ cSessions' = cSessions + 1
    /\ cFlag' = FALSE
    /\ cPc' = "stop_va"
    /\ cTaken' = <<>>
    /\ cDispatched' = <<>>
    /\ cCallback' = "none"
    /\ cRestarted' = "none"
    /\ UNCHANGED <<cIntr, cOutcome, sEmits, sCrashed, sLog, detVars, sttVars, cmdVars, loopVars, askVars, wakeVars>>

\* Ctrl+C while polling: True is returned through finally: cleanup().
CoInterruptPoll ==
    /\ cPc = "poll"
    /\ cPc' = "cleanup"
    /\ cOutcome' = "true"
    /\ UNCHANGED <<cFlag, cIntr, cSessions, detVars, sttVars, cmdVars, loopVars, askVars, wakeVars, histVars>>

\* _process_voice_command: self.voice_activation.stop_listening()
CoStopDetector ==
    /\ stop_listening_begin("stop_va", "va_join", "stt_start")
    /\ UNCHANGED <<cFlag, cIntr, cOutcome, cSessions, sttVars, cmdVars, loopVars, askVars, wakeVars, histVars>>

CoJoinDetector ==
    /\ stop_listening_finish("va_join", "stt_start")
    /\ UNCHANGED <<cFlag, cIntr, cOutcome, cSessions, sttVars, cmdVars, loopVars, askVars, wakeVars, histVars>>

\* Ctrl+C inside stop_listening(), before it or while it waits in join():
\* the call stands before the try of _process_voice_command, so the
\* interrupt goes straight to finally: cleanup() of the polling loop.
CoInterruptStopDetector ==
    /\ cPc \in {"stop_va", "va_join"}
    /\ cPc' = "cleanup"
    /\ cOutcome' = "true"
    /\ UNCHANGED <<cFlag, cIntr, cSessions, detVars, sttVars, cmdVars, loopVars, askVars,
                   wakeVars, histVars>>

\* Ctrl+C inside SpeechToText.start(): except Exception does not catch it,
\* so start() is left where it stands (nothing acquired yet, the model
\* loaded, PyAudio created, the stream opened, or the worker started) and the interrupt goes
\* to finally: cleanup() of the polling loop.
CoInterruptSttStart ==
    /\ cPc = "stt_start"
    /\ ~sRunning
    /\ \E reached \in {"nothing", "model", "audio", "stream", "worker"} :
         /\ sModel' = (sModel \/ reached # "nothing")
         /\ sAudio' = (sAudio \/ reached \in {"audio", "stream", "worker"})
         /\ sStream' = (sStream \/ reached \in {"stream", "worker"})
         /\ sRunning' = (reached = "worker")
         /\ sThread' = IF reached = "worker" THEN "loop" ELSE sThread
         /\ sEmits' = IF reached = "worker" THEN 0 ELSE sEmits
    /\ cPc' = "cleanup"
    /\ cOutcome' = "true"
    /\ UNCHANGED <<cFlag, cIntr, cSessions, sZombie, sPhrase, sQueue, detVars, cmdVars, loopVars,
                   askVars, wakeVars, cTaken, cDispatched, cCallback, cRestarted, sCrashed, sLog>>

\* SpeechToText.start(): nothing while running; otherwise the model is
\* loaded, PyAudio created, the stream opened and the worker started, or an
\* exception is printed, stop() returns at once (the flag is clear) and the
\* exception is raised again, past _process_voice_command (the call stands
\* before its try) and past the polling loop, into finally: cleanup().
CoSttStart ==
    /\ cPc = "stt_start"
    /\ IF sRunning
       THEN cPc' = "capture" /\ UNCHANGED <<cOutcome, sttVars, sEmits>>
       ELSE \E outcome \in {"ok", "no_model", "no_device"} :
              CASE outcome = "ok" ->
                     /\ sModel' = TRUE
                     /\ sAudio' = TRUE
                     /\ sStream' = TRUE
                     /\ sRunning' = TRUE
                     /\ sThread' = "loop"
                     /\ sEmits' = 0
                     /\ cPc' = "capture"
                     /\ UNCHANGED <<cOutcome, sZombie, sPhrase, sQueue>>
                [] outcome = "no_model" ->
                     /\ cPc' = "cleanup"
                     /\ cOutcome' = "raised"
                     /\ UNCHANGED <<sttVars, sEmits>>
                [] outcome = "no_device" ->
                     /\ sModel' = TRUE
                     /\ sAudio' = TRUE
                     /\ cPc' = "cleanup"
                     /\ cOutcome' = "raised"
                     /\ UNCHANGED <<sRunning, sThread, sZombie, sStream, sPhrase, sQueue, sEmits>>
    /\ UNCHANGED <<cFlag, cIntr, cSessions, detVars, cmdVars, loopVars, askVars, wakeVars,
                   cTaken, cDispatched, cCallback, cRestarted, sCrashed, sLog>>

\* _emit: the result is put at the end of the result queue.
_emit(queue, event) == Append(queue, event)

\* iter_results as it would be if it yielded the newest result first.
iter_results_newest(queue) == queue[Len(queue)]

\* iter_results: the result yielded is the one Queue.get() returns, the
\* oldest one on the queue.
iter_results(queue) == Head(queue)

\* _process_loop: a frame is read and a non-empty partial or final text
\* put on the result queue.
SttEmit ==
    /\ sThread = "loop" /\ sRunning
    /\ Len(sQueue) < MaxQueue
    /\ sEmits < MaxEmits
    /\ sEmits' = sEmits + 1
    /\ \E final \in BOOLEAN :
         LET event == [final |-> final, stale |-> FALSE, n |-> Len(sLog) + 1]
         IN  sQueue' = _emit(sQueue, event) /\ sLog' = Append(sLog, event)
    /\ sPhrase' = TRUE
    /\ UNCHANGED <<sRunning, sThread, sZombie, sStream, sAudio, sModel, coVars, detVars,
                   cmdVars, loopVars, askVars, wakeVars, cTaken, cDispatched, cCallback, cRestarted, sCrashed>>

\* _process_loop as it would be if the worker cleared the flag on its way
\* out, as the detector's loop does.
SttWorkerCrashClearing ==
    /\ sThread = "loop" /\ sRunning
    /\ sThread' = "dead"
    /\ sRunning' = FALSE
    /\ sCrashed' = TRUE
    /\ UNCHANGED <<sZombie, sStream, sAudio, sModel, sPhrase, sQueue, coVars, detVars,
                   cmdVars, loopVars, askVars, wakeVars, sEmits, cTaken, cDispatched, cCallback, cRestarted, sLog>>

\* _process_loop: an exception breaks the loop; the flag stays set.
SttWorkerCrash ==
    /\ sThread = "loop" /\ sRunning
    /\ sThread' = "dead"
    /\ sCrashed' = TRUE
    /\ UNCHANGED <<sRunning, sZombie, sStream, sAudio, sModel, sPhrase, sQueue, coVars, detVars,
                   cmdVars, loopVars, askVars, wakeVars, sEmits, cTaken, cDispatched, cCallback, cRestarted, sLog>>

\* _process_loop: the loop sees the flag cleared and ends.
SttWorkerExit ==
    /\ sThread = "loop" /\ ~sRunning
    /\ sThread' = "dead"
    /\ UNCHANGED <<sRunning, sZombie, sStream, sAudio, sModel, sPhrase, sQueue, coVars, detVars,
                   cmdVars, loopVars, askVars, wakeVars, histVars>>

\* A worker that outlived its join finishes the iteration it was in and
\* emits its result, after the session it belonged to was stopped (stale);
\* it goes on while the flag is set.
SttZombieEmit ==
    /\ sZombie
    /\ Len(sQueue) < MaxQueue
    /\ sEmits < MaxEmits
    /\ sEmits' = sEmits + 1
    /\ \E final \in BOOLEAN :
         LET event == [final |-> final, stale |-> TRUE, n |-> Len(sLog) + 1]
         IN  sQueue' = _emit(sQueue, event) /\ sLog' = Append(sLog, event)
    /\ sZombie' = sRunning
    /\ sPhrase' = TRUE
    /\ UNCHANGED <<sRunning, sThread, sStream, sAudio, sModel, coVars, detVars,
                   cmdVars, loopVars, askVars, wakeVars, cTaken, cDispatched, cCallback, cRestarted, sCrashed>>

\* A worker that outlived its join ends, on the exception of its read or on
\* seeing the flag cleared.
SttZombieExit ==
    /\ sZombie
    /\ sZombie' = FALSE
    /\ UNCHANGED <<sRunning, sThread, sStream, sAudio, sModel, sPhrase, sQueue, coVars, detVars,
                   cmdVars, loopVars, askVars, wakeVars, histVars>>

\* What a call of self.on_command(text) does: it returns, raises an
\* Exception, or is interrupted by Ctrl+C.
OnCommandOutcomes == {"ok", "exception", "interrupt"}

\* A try statement without the except Exception clause: whatever the call
\* raises goes on past the finally.
ExceptNothing(result) == result # "ok"

\* try: ... self.on_command(text) ... except Exception as e: print(...).
\* TRUE when what the call raised goes on past the finally.
ExceptException(result) == result # "ok" /\ result # "exception"

\* for text, is_final in self.stt.iter_results(): a final result (its text
\* is never blank: the worker strips and tests it) is dispatched to
\* on_command, which returns, raises an Exception (caught and printed) or is
\* interrupted; any other result is skipped.
CoTakeResult ==
    /\ cPc = "capture"
    /\ sRunning
    /\ sQueue # <<>>
    /\ sQueue' = Tail(sQueue)
    /\ cTaken' = Append(cTaken, iter_results(sQueue))
    /\ cDispatched' = IF iter_results(sQueue).final
                      THEN Append(cDispatched, iter_results(sQueue))
                      ELSE cDispatched
    /\ IF iter_results(sQueue).final
       THEN \E result \in OnCommandOutcomes :
              /\ cPc' = "stt_stop"
              /\ cIntr' = ExceptException(result)
              /\ cCallback' = result
       ELSE UNCHANGED <<cPc, cIntr, cCallback>>
    /\ UNCHANGED <<cFlag, cOutcome, cSessions, sRunning, sThread, sZombie, sStream, sAudio, sModel, sPhrase,
                   detVars, cmdVars, loopVars, askVars, wakeVars, sEmits, cRestarted, sCrashed, sLog>>

\* Ctrl+C while waiting for a result: finally runs, the interrupt goes on.
CoInterruptCapture ==
    /\ cPc = "capture"
    /\ cPc' = "stt_stop"
    /\ cIntr' = TRUE
    /\ UNCHANGED <<cFlag, cOutcome, cSessions, detVars, sttVars, cmdVars, loopVars, askVars, wakeVars, histVars>>

\* SpeechToText.stop(), up to the join.
CoSttStop ==
    /\ cPc = "stt_stop"
    /\ IF sRunning
       THEN sRunning' = FALSE /\ cPc' = "stt_join"
       ELSE cPc' = "restart" /\ UNCHANGED sRunning
    /\ UNCHANGED <<cFlag, cIntr, cOutcome, cSessions, sThread, sZombie, sStream, sAudio, sModel, sPhrase, sQueue,
                   detVars, cmdVars, loopVars, askVars, wakeVars, histVars>>

\* SpeechToText.stop(), from the join on: join(timeout=2.0) returns with
\* the worker ended or still alive, the stream is closed, PyAudio terminated
\* and the result queue drained.
CoSttJoin ==
    /\ cPc = "stt_join"
    /\ cPc' = "restart"
    /\ sZombie' = (sZombie \/ sThread = "loop")
    /\ sThread' = "none"
    /\ sStream' = FALSE
    /\ sAudio' = FALSE
    /\ sModel' = FALSE
    /\ sPhrase' = FALSE
    /\ sQueue' = <<>>
    /\ sLog' = <<>>
    /\ UNCHANGED <<cFlag, cIntr, cOutcome, cSessions, sRunning, detVars, cmdVars, loopVars, askVars, wakeVars,
                   sEmits, cTaken, cDispatched, cCallback, cRestarted, sCrashed>>

\* finally: self.voice_activation.start_listening(), whose failure is only
\* printed; then back to polling, or on with the interrupt.
CoRestart ==
    /\ cPc = "restart"
    /\ \E ok \in BOOLEAN :
         /\ start_listening(ok)
         /\ cRestarted' = IF dRunning \/ ok THEN "ok" ELSE "failed"
    /\ cPc' = IF cIntr THEN "cleanup" ELSE "poll"
    /\ cOutcome' = IF cIntr THEN "true" ELSE cOutcome
    /\ cIntr' = FALSE
    /\ UNCHANGED <<cFlag, cSessions, sttVars, cmdVars, loopVars, askVars, wakeVars,
                   sEmits, cTaken, cDispatched, cCallback, sCrashed, sLog>>

\* finally: self.voice_activation.cleanup(): stop_listening() up to the
\* join, or, when it returns at once, the drain of the activation queue.
CoCleanup ==
    /\ stop_listening_begin("cleanup", "cleanup_join", "ended")
    /\ wQueue' = IF cPc' = "ended" THEN <<>> ELSE wQueue
    /\ UNCHANGED <<cFlag, cIntr, cOutcome, cSessions, sttVars, cmdVars, loopVars, askVars,
                   histVars, wNow, wRunning, wThread, wStream, wStarts, wLast, wCount,
                   wCallbacks, wFired, wEvents, gPc, gLog, wRaised>>

\* cleanup(): stop_listening() from the join on, then the activation queue
\* is drained.
CoCleanupJoin ==
    /\ stop_listening_finish("cleanup_join", "ended")
    /\ wQueue' = <<>>
    /\ UNCHANGED <<cFlag, cIntr, cOutcome, cSessions, sttVars, cmdVars, loopVars, askVars,
                   histVars, wNow, wRunning, wThread, wStream, wStarts, wLast, wCount,
                   wCallbacks, wFired, wEvents, gPc, gLog, wRaised>>

CoordNext ==
    \/ CoStart
    \/ DetectorScan
    \/ DetectorCrash
    \/ DetectorExit
    \/ ZombieScan
    \/ ZombieExit
    \/ CoPoll
    \/ CoInterruptPoll
    \/ CoStopDetector
    \/ CoJoinDetector
    \/ CoInterruptStopDetector
    \/ CoSttStart
    \/ CoInterruptSttStart
    \/ SttEmit
    \/ SttWorkerCrash
    \/ SttWorkerExit
    \/ SttZombieEmit
    \/ SttZombieExit
    \/ CoTakeResult
    \/ CoInterruptCapture
    \/ CoSttStop
    \/ CoSttJoin
    \/ CoRestart
    \/ CoCleanup
    \/ CoCleanupJoin

(***************************************************************************)
(* SpeechToText._process_loop, frame by frame: what the recognizer answers *)
(* to each frame read, and what the loop emits.  Time is in whole seconds. *)
(***************************************************************************)
MaxFrames == 3
MaxClock == 3

\* silence_timeout as the coordinator constructs the session.
SilenceTimeout == 1

\* self._last_speech_time = None
NoTime == 0 - 1

\* The texts the recognizer reports in Result() or PartialResult().
LoopTexts == { <<>>, <<"a">>, <<"a", " ">>, <<"b">> }

LoopState(last, emitted, phrase, out) ==
    [last |-> last, emitted |-> emitted, phrase |-> phrase, out |-> out]

\* The accepted-waveform branch without self._last_emitted_text = text.
OnFinalForgetting(st, text, now) ==
    IF text # <<>>
    THEN [st EXCEPT !.phrase = text,
                    !.last = now,
                    !.out = Append(st.out, [text |-> text, final |-> TRUE, t |-> now])]
    ELSE st

\* if self._recognizer.AcceptWaveform(data): the final text, if non-empty,
\* becomes the current phrase, is emitted as final and remembered.
OnFinal(st, text, now) ==
    IF text # <<>>
    THEN [st EXCEPT !.phrase = text,
                    !.last = now,
                    !.out = Append(st.out, [text |-> text, final |-> TRUE, t |-> now]),
                    !.emitted = text]
    ELSE st

\* else: the partial text is emitted if non-empty and not the text emitted
\* last, and remembered; the current phrase is left alone.
OnPartial(st, text, now) ==
    IF text # <<>> /\ text # st.emitted
    THEN [st EXCEPT !.last = now,
                    !.out = Append(st.out, [text |-> text, final |-> FALSE, t |-> now]),
                    !.emitted = text]
    ELSE st

\* The silence check at the end of the iteration.
SilenceCheck(st, now) ==
    IF st.last # NoTime /\ now - st.last > SilenceTimeout
    THEN LET flushed ==
                 IF st.phrase # <<>> /\ st.phrase # st.emitted
                 THEN [st EXCEPT !.out = Append(st.out, [text |-> st.phrase, final |-> TRUE,
                                                         t |-> now]),
                                 !.emitted = st.phrase]
                 ELSE st
         IN  [flushed EXCEPT !.phrase = <<>>, !.last = NoTime]
    ELSE st

\* One iteration of _process_loop.
_process_loop(st, boundary, raw, now) ==
    SilenceCheck(IF boundary THEN OnFinal(st, Strip(raw), now)
                             ELSE OnPartial(st, Strip(raw), now),
                 now)

LoopIdle ==
    /\ pNow = 0
    /\ pLast = NoTime
    /\ pEmitted = <<>>
    /\ pPhrase = <<>>
    /\ pOut = <<>>
    /\ pFrames = <<>>

\* SpeechToText.__init__ (and stop()): no speech time, no text, no phrase.
LoopStart == LoopIdle

\* Time passes between two frames.
LoopTick ==
    /\ pNow < MaxClock
    /\ pNow' = pNow + 1
    /\ UNCHANGED <<pLast, pEmitted, pPhrase, pOut, pFrames, cmdVars, askVars, wakeVars,
                   coordVars>>

\* A frame is read and the recognizer reports an utterance boundary with
\* its final text, or a partial text.
LoopFrame ==
    /\ Len(pFrames) < MaxFrames
    /\ \E boundary \in BOOLEAN, raw \in LoopTexts :
         LET st == _process_loop(LoopState(pLast, pEmitted, pPhrase, pOut),
                                 boundary, raw, pNow)
         IN  /\ pLast' = st.last
             /\ pEmitted' = st.emitted
             /\ pPhrase' = st.phrase
             /\ pOut' = st.out
             /\ pFrames' = Append(pFrames, [boundary |-> boundary, text |-> Strip(raw),
                                            t |-> pNow])
    /\ UNCHANGED <<pNow, cmdVars, askVars, wakeVars, coordVars>>

LoopNext ==
    \/ LoopTick
    \/ LoopFrame

(***************************************************************************)
(* Claims about the voice coordinator.                                     *)
(***************************************************************************)
DetectorStreamOpen == dStream \/ dLeaked > 0

DetectorThreadAlive == dThread = "loop" \/ dZombie

SttThreadAlive == sThread = "loop" \/ sZombie

\* C3: the detector and the capture session never hold the audio device at
\* the same time: while the capture session's stream is open or its worker
\* alive, the detector's thread has ended and its stream is closed, and the
\* other way round.
C3_ExclusiveDevice ==
    ~ /\ DetectorStreamOpen \/ DetectorThreadAlive
      /\ sStream \/ SttThreadAlive

FinalsOf(events) == SelectSeq(events, LAMBDA e : e.final)

\* C13: in a capture session the coordinator hands to on_command exactly
\* the first final result of that session, once; partial results are
\* skipped, nothing is taken after the dispatch, the session is stopped
\* before the detector is restarted, and the coordinator is back polling only
\* after that restart.
C13_DispatchFirstFinal ==
    /\ Len(cDispatched) <= 1
    /\ cDispatched = FinalsOf(cTaken)
    /\ cDispatched # <<>> =>
          /\ cTaken[Len(cTaken)] = cDispatched[1]
          /\ cDispatched[1].final
          /\ ~cDispatched[1].stale
    /\ cPc = "restart" => (~sRunning /\ ~sStream)
    /\ (cPc = "poll" /\ cSessions > 0) => cRestarted # "none"

\* C14: when the restart of the detector after a capture session fails, the
\* coordinator goes on polling and start_listening() is attempted again
\* later on (the coordinator reaches its restart once more, or the detector
\* is listening), unless the user interrupts the coordinator first.
C14_KeepsTrying ==
    (cPc = "poll" /\ cRestarted = "failed" /\ ~dRunning /\ cSessions < MaxSessions)
        ~> (cPc = "restart" \/ dRunning \/ cOutcome # "none")

\* C15: when start_voice_activation_mode returns after a KeyboardInterrupt,
\* wherever the interrupt hit, the detector is not running and holds no
\* stream, and the capture session is not running and holds no stream.
C15_InterruptCleansUp ==
    (cPc = "ended" /\ cOutcome = "true") =>
        /\ ~sRunning /\ ~sStream /\ sThread # "loop"
        /\ ~dRunning /\ ~DetectorStreamOpen /\ dThread # "loop"

\* C16: a capture session whose start() cannot get the device or the model
\* does not end the coordinator: no exception leaves the polling loop, which
\* ends only by the user's interrupt.
C16_StartFailureContained ==
    /\ cOutcome # "raised"
    /\ cPc \in {"cleanup", "cleanup_join", "ended"} => cOutcome \in {"true", "false"}

\* A step in which start_listening() is called and returns, and its result:
\* start_voice_activation_mode goes on to poll on True, and the restart
\* records what it got.
StartListeningReturns == cPc \in {"init", "restart"} /\ cPc' # cPc

StartListeningTrue == IF cPc = "init" THEN cPc' = "poll" ELSE cRestarted' = "ok"

C18_CrashedLoopReleased ==
    dRunning => (dStream /\ dAudio /\ dLeaked = 0)

\* C19: a capture session whose processing loop ended on a read error can
\* be stopped and started again: stop() is not skipped, it releases the
\* stream, the PyAudio instance, the recognizer and the model and clears the
\* queue and the phrase state, and the start() after it gives a running
\* session with a new worker, starting from what stop() left.
C19_CrashedSessionRestartable ==
    [][sCrashed =>
          /\ (cPc = "stt_stop" /\ cPc' # cPc) =>
                 (sRunning => cPc' = "stt_join") /\ ~sRunning'
          /\ (cPc = "stt_join" /\ cPc' # cPc) =>
                 /\ ~sRunning' /\ sThread' = "none"
                 /\ ~sStream' /\ ~sAudio' /\ ~sModel'
                 /\ sQueue' = <<>> /\ ~sPhrase'
          /\ cPc' = "restart" => (~sStream' /\ ~sAudio' /\ ~sModel')
          /\ (cPc = "stt_start" /\ cPc' = "capture") =>
                 /\ sRunning' /\ sThread' = "loop"
                 /\ sStream' /\ sAudio' /\ sModel'
                 /\ sQueue' = sQueue /\ sPhrase' = sPhrase]_vars

C19_Witness ==
    /\ sCrashed /\ cSessions = 2 /\ cPc = "capture"
    /\ sRunning /\ sThread = "loop" /\ sStream /\ sAudio /\ sModel
    /\ sQueue = <<>> /\ ~sPhrase

\* C20: between the calls of start and stop (the coordinator polling or
\* waiting for a result, no call in progress) each component holds exactly
\* one device handle if it is running and none if it is stopped, whatever
\* calls came before.
C20_OneHandleIffRunning ==
    cPc \in {"poll", "capture"} =>
        /\ IF dRunning THEN dStream /\ dLeaked = 0 ELSE ~DetectorStreamOpen
        /\ IF sRunning THEN sStream ELSE ~sStream

\* C25: every shutdown goes flag, join, release, and ends with the handles
\* released: a stream is closed only by a stop that has cleared the flag
\* and is past its join; when a call of stop_listening() or stop() returns,
\* its stream and PyAudio instance (and the capture session's model) are
\* released, and when the coordinator has ended no stream is open.
C25_ShutdownOrder ==
    [][/\ (dStream /\ ~dStream') => (~dRunning /\ cPc \in {"va_join", "cleanup_join"})
       /\ (sStream /\ ~sStream') => (~sRunning /\ cPc = "stt_join")
       /\ (cPc \in {"stop_va", "va_join"} /\ cPc' = "stt_start") => (~dStream' /\ ~dAudio')
       /\ (cPc \in {"stt_stop", "stt_join"} /\ cPc' = "restart") =>
              (~sStream' /\ ~sAudio' /\ ~sModel')
       /\ (cPc # "ended" /\ cPc' = "ended") =>
              (~dStream' /\ dLeaked' = 0 /\ ~sStream')]_vars

\* C28: the wake flag stands for at most one pending activation: a poll
\* that finds it set clears it and starts one capture episode, and a
\* detection made while that activation is being processed is dropped, so
\* the flag is clear when the coordinator returns to polling.
C28_SingleFlagHandoff ==
    [][/\ (cPc = "poll" /\ cPc' = "stop_va") =>
              (cFlag /\ ~cFlag' /\ cSessions' = cSessions + 1)
       /\ (cPc = "restart" /\ cPc' = "poll") => ~cFlag']_vars

\* C29: an activation the coordinator has taken up has been removed from
\* the activation queue: when the coordinator enters _process_voice_command
\* for it, the queue no longer holds it.
C29_ActivationConsumed ==
    [][(cPc = "poll" /\ cPc' = "stop_va") => wQueue' = <<>>]_vars

\* C31: each component has at most one thread inside its read loop at any
\* time: the detector's current listening thread and a listening thread
\* left over from a join that timed out are never alive together, and the
\* same for the capture session's worker.
C31_OneWorkerPerComponent ==
    /\ ~(dThread = "loop" /\ dZombie)
    /\ ~(sThread = "loop" /\ sZombie)

\* stop_listening() of _process_voice_command has returned and the
\* start_listening() of its finally has not been called yet.
DetectorDisarmed == cPc \in {"stt_start", "capture", "stt_stop", "stt_join", "restart"}

\* C32: the wake flag is set only while the detector is armed: from the
\* return of stop_listening() to the next start_listening() no step sets
\* the flag or puts an activation on the queue, and the flag is false when
\* the coordinator is back at its poll.
C32_FlagOnlyWhileArmed ==
    [][/\ (DetectorDisarmed /\ DetectorDisarmed') =>
              /\ cFlag' => cFlag
              /\ Len(wQueue') <= Len(wQueue)
       /\ (cPc = "restart" /\ cPc' = "poll") => ~cFlag']_vars

\* C33: when the worker of the capture session has ended on an exception
\* while the coordinator iterates over iter_results(), with no final result
\* emitted, the coordinator eventually leaves the capture (the iteration
\* ends, or the user interrupts it).
C33_CrashedCaptureEnds ==
    (cPc = "capture" /\ sThread = "dead" /\ sRunning /\ ~sZombie
        /\ FinalsOf(sQueue) = <<>> /\ cDispatched = <<>>)
        ~> (cPc # "capture")

\* C34: when the detector's listening loop has ended on an exception while
\* the coordinator polls the flag (no activation pending), start_listening()
\* is eventually called again (the coordinator reaches its restart, or the
\* detector is listening), unless the user interrupts the coordinator first.
C34_CrashedDetectorRestarted ==
    (cPc = "poll" /\ dThread = "dead" /\ ~dRunning /\ ~dZombie /\ ~cFlag
        /\ cSessions < MaxSessions)
        ~> (cPc = "restart" \/ dRunning \/ cOutcome # "none")

\* SpeechToText.start() raises out of _process_voice_command.
SttStartRaises == cPc = "stt_start" /\ cPc' = "cleanup" /\ cOutcome' = "raised"

\* C35: a failed start releases what it acquired: when start_listening()
\* returns False, or SpeechToText.start() raises, the component holds no
\* PyAudio instance, stream or model that it did not hold before the call.
C35_FailedStartReleases ==
    [][/\ (StartListeningReturns /\ ~StartListeningTrue) =>
              /\ dAudio' => dAudio
              /\ dStream' => dStream
       /\ SttStartRaises =>
              /\ sAudio' => sAudio
              /\ sStream' => sStream
              /\ sModel' => sModel]_vars

\* C39: an Exception raised by on_command during the capture does not end
\* the coordinator: it is caught (nothing propagates), the finally stops
\* the capture session and calls start_listening(), and the coordinator is
\* back at its poll with no outcome.
C39_CallbackExceptionCaught ==
    [][/\ (cPc = "capture" /\ cCallback' = "exception") =>
              (cPc' = "stt_stop" /\ ~cIntr')
       /\ (cCallback = "exception" /\ cPc \in {"stt_stop", "stt_join"}) =>
              (cPc' \in {"stt_stop", "stt_join", "restart"} /\ ~cIntr')
       /\ (cCallback = "exception" /\ cPc = "restart" /\ cPc' # "restart") =>
              /\ ~sRunning
              /\ cRestarted' \in {"ok", "failed"}
              /\ cPc' = "poll"
              /\ cOutcome' = "none"]_vars

\* on_command raised, the session was stopped, the detector restarted and
\* the coordinator polls again.
C39_Witness ==
    /\ cCallback = "exception"
    /\ cPc = "poll"
    /\ cOutcome = "none"
    /\ ~sRunning
    /\ cRestarted = "ok" /\ dRunning

\* The coordinator is inside _process_voice_command, before its finally
\* has drained the queue.
InSession == cPc \in {"stop_va", "va_join", "stt_start", "capture", "stt_stop", "stt_join"}

\* C21: iter_results() yields the results in the order they were emitted:
\* what it has yielded in a session, followed by what is still queued, is
\* what was put on the queue since the last drain, and each yield is the
\* next result of that order; it yields only while the session is running.
C21_IterResultsInOrder ==
    [][/\ InSession' => cTaken' \o sQueue' = sLog'
       /\ (cTaken' # cTaken /\ cTaken' # <<>>) =>
              /\ sRunning
              /\ cTaken' = Append(cTaken, sLog[Len(cTaken) + 1])]_vars

C21_Witness ==
    /\ cPc = "stt_stop" /\ Len(cTaken) = 2
    /\ cTaken[1].n = 1 /\ ~cTaken[1].final
    /\ cTaken[2].n = 2 /\ cTaken[2].final

(***************************************************************************)
(* Claims about the capture session's processing loop.                     *)
(***************************************************************************)
LastOf(seq) == seq[Len(seq)]

FrameRead == Len(pFrames') = Len(pFrames) + 1

\* C26: when the last result emitted is a partial, the frame just read
\* brings no utterance boundary and no new text, and more than
\* silence_timeout has passed since that partial, the loop emits a final
\* result with the partial's text and resets phrase and speech time.
C26_SilenceWatchdog ==
    [][(/\ FrameRead
        /\ pOut # <<>>
        /\ ~LastOf(pOut).final
        /\ ~LastOf(pFrames').boundary
        /\ LastOf(pFrames').text \in {<<>>, LastOf(pOut).text}
        /\ pNow - LastOf(pOut).t > SilenceTimeout)
       => /\ pOut' = Append(pOut, [text |-> LastOf(pOut).text, final |-> TRUE, t |-> pNow])
          /\ pPhrase' = <<>>
          /\ pLast' = NoTime]_vars

\* C27: a partial result is emitted only for a frame without boundary whose
\* text is non-empty and differs from the text of the result emitted last
\* before it; a frame with a boundary and non-empty text always emits,
\* first of all, a final result with that text.
C27_PartialsCoalesced ==
    [][FrameRead =>
          LET frame == LastOf(pFrames')
              prev == IF pOut = <<>> THEN <<>> ELSE LastOf(pOut).text
          IN  /\ Len(pOut') >= Len(pOut) /\ SubSeq(pOut', 1, Len(pOut)) = pOut
              /\ \A k \in (Len(pOut) + 1)..Len(pOut') :
                    ~pOut'[k].final =>
                        /\ k = Len(pOut) + 1
                        /\ ~frame.boundary
                        /\ pOut'[k].text = frame.text
                        /\ frame.text # <<>>
                        /\ frame.text # prev
              /\ (frame.boundary /\ frame.text # <<>>) =>
                    /\ Len(pOut') > Len(pOut)
                    /\ pOut'[Len(pOut) + 1] = [text |-> frame.text, final |-> TRUE,
                                                t |-> pNow]]_vars

C27_Witness ==
    /\ Len(pFrames) = 3 /\ Len(pOut) = 2
    /\ pFrames[1].boundary /\ pFrames[1].text = <<"a">>
    /\ ~pFrames[2].boundary /\ pFrames[2].text = <<"a">>
    /\ ~pFrames[3].boundary /\ pFrames[3].text = <<"b">>
    /\ pOut[1].final /\ pOut[1].text = <<"a">>
    /\ ~pOut[2].final /\ pOut[2].text = <<"b">>

(***************************************************************************)
(* Claims about the wake-word detector.                                    *)
(***************************************************************************)
FiredEvents == {k \in 1..Len(wEvents) : wEvents[k].fired}

\* C24: get_activation(timeout=None) does not block: a call with
\* timeout=None never stays inside Queue.get(), on an empty queue it returns
\* None without having waited, and a call that finds activations returns
\* the oldest one (activations leave in the order of their counts).
C24_GetActivationNonBlocking ==
    /\ gPc # "blocked"
    /\ \A k \in 1..Len(gLog) : gLog[k].timeout = "None" => ~gLog[k].waited
    /\ \A j, k \in 1..Len(gLog) :
         (j < k /\ gLog[j].result # None /\ gLog[k].result # None)
            => gLog[j].result[1].count < gLog[k].result[1].count

\* C22: an exception raised by the wake-word callback stays inside the
\* detector: in the step in which the callback raised, the activation was
\* put on the queue, the detection counter went up by one, the last
\* detection time is the time of the event, and the listening thread is
\* still running with the flag set.
C22_CallbackErrorContained ==
    [][(Len(wEvents') > Len(wEvents) /\ wRaised') =>
          /\ Len(wQueue') = Len(wQueue) + 1
          /\ wQueue'[Len(wQueue')].timestamp = wNow
          /\ wCount' = wCount + 1
          /\ wCallbacks' = wCallbacks + 1
          /\ wLast' = wNow
          /\ wRunning' /\ wThread']_vars

\* The callback has just raised: the activation is the last one on the queue
\* and the listening thread is still running.
C22_Witness ==
    /\ wRaised
    /\ wRunning /\ wThread
    /\ wQueue # <<>> /\ wQueue[Len(wQueue)].timestamp = wNow
    /\ wFired # <<>> /\ wFired[Len(wFired)] = wNow


\* C1: whatever partial and final events the detector scans, and whatever
\* stop_listening/start_listening restarts happen in between, any two accepted
\* activations (queue entries and callback invocations alike) are at least the
\* debounce window apart, and nothing is accepted inside the window of the
\* previous acceptance.
C1_DebounceGap ==
    /\ \A i, j \in 1..Len(wFired) : i < j => wFired[j] - wFired[i] >= Debounce
    /\ \A i, j \in 1..Len(wQueue) :
         i < j => wQueue[j].timestamp - wQueue[i].timestamp >= Debounce
    /\ Len(wQueue) = Len(wFired)
    /\ wCallbacks = Len(wFired)
    /\ \A k \in FiredEvents :
         \A j \in FiredEvents : j < k => wEvents[k].t - wEvents[j].t >= Debounce

\* Two activations exactly one window apart, a partial and a final one, with a
\* restart of the detector between them and a matching event refused inside
\* the window.
C1_Witness ==
    /\ Len(wFired) = 2
    /\ wFired[2] - wFired[1] = Debounce
    /\ Len(wEvents) = 3
    /\ wEvents[1].fired /\ wEvents[1].partial
    /\ wEvents[2].match /\ ~wEvents[2].fired /\ wEvents[2].t - wEvents[1].t < Debounce
    /\ wEvents[3].fired /\ ~wEvents[3].partial
    /\ wEvents[3].session > wEvents[1].session

\* The events the debounce rule accepts, computed from the event stream alone:
\* a matching event is accepted iff no accepted event lies less than the
\* window before it.
RECURSIVE Accepted(_, _, _, _)
Accepted(events, k, lastAccepted, acc) ==
    IF k > Len(events) THEN acc
    ELSE IF events[k].match
            /\ (lastAccepted = -1 \/ events[k].t - lastAccepted >= Debounce)
         THEN Accepted(events, k + 1, events[k].t, acc \cup {k})
         ELSE Accepted(events, k + 1, lastAccepted, acc)

\* C2: while listening, an event containing a configured phrase
\* (case-insensitively) outside the debounce window enqueues exactly one
\* activation and runs the callback exactly once; matching events inside the
\* window, and events without a phrase, do neither.
C2_OnePerWindow ==
    /\ FiredEvents = Accepted(wEvents, 1, -1, {})
    /\ Len(wQueue) = Cardinality(FiredEvents)
    /\ wCallbacks = Cardinality(FiredEvents)
    /\ wCount = Cardinality(FiredEvents)

\* A match is accepted, a second match one second later is ignored, and a
\* third one two seconds after the first is accepted again.
C2_Witness ==
    /\ Len(wEvents) = 3
    /\ \A k \in 1..3 : wEvents[k].match
    /\ wEvents[2].t = wEvents[1].t + 1
    /\ wEvents[3].t = wEvents[1].t + Debounce
    /\ FiredEvents = {1, 3}
    /\ Len(wQueue) = 2 /\ wCallbacks = 2

\* The positions of the configured phrases that the text contains when case
\* is ignored.
PhrasesIn(text) ==
    {i \in 1..Len(WakeWordsConfig) : Contains(Lower(text), Lower(WakeWordsConfig[i]))}

\* C30: matching is a case-insensitive substring test on partial and final
\* events alike, first configured phrase wins: every accepted activation
\* carries the lower-cased text of its event, its trigger phrase is the
\* earliest configured phrase (lower-cased) contained in that text, an event
\* is accepted only if its text contains a phrase, and each activation's
\* detection count is one more than the previous activation's, starting at 1.
C30_FirstPhraseWins ==
    /\ \A k \in 1..Len(wQueue) :
         LET a == wQueue[k]
             phrases == PhrasesIn(a.full_text)
         IN
         /\ a.full_text = Lower(a.full_text)
         /\ phrases # {}
         /\ \E i \in phrases :
              /\ a.wake_word = Lower(WakeWordsConfig[i])
              /\ \A j \in phrases : i <= j
         /\ a.count = IF k = 1 THEN 1 ELSE wQueue[k - 1].count + 1
    /\ wQueue # <<>> => wCount = wQueue[Len(wQueue)].count
    /\ \A k \in FiredEvents : wEvents[k].match

\* Two activations, one from a partial and one from a final event; the first
\* text contains both configured phrases and came from mixed-case input, the
\* second contains only the later phrase.
C30_Witness ==
    /\ Len(wQueue) = 2
    /\ Cardinality(PhrasesIn(wQueue[1].full_text)) = 2
    /\ wQueue[1].wake_word = wake_words[1]
    /\ PhrasesIn(wQueue[2].full_text) = {2}
    /\ wQueue[2].wake_word = wake_words[2]
    /\ wQueue[2].count = 2
    /\ \E j, k \in FiredEvents : wEvents[j].partial /\ ~wEvents[k].partial

(***************************************************************************)
(* Claims about the command executors.                                     *)
(***************************************************************************)
NonBlank(segs) == SelectSeq(segs, LAMBDA g : g.kind # "blank")
Callable(segs) == SelectSeq(segs, LAMBDA g : g.kind \notin {"blank", "unknown"})

OpOf(kind) ==
    CASE kind = "reload" -> "reload_servers"
      [] kind = "list" -> "list_servers"
      [] kind = "inspect" -> "inspect_server"
      [] kind = "call" -> "call_server_tool"
      [] OTHER -> "none"

\* The result at position i is the one the i-th non-empty segment produces.
ResultOfSegment(seg, result, raised) ==
    IF seg.kind = "unknown"
    THEN result = Error("Unknown command", <<Strip(seg.text)>>)
    ELSE IF raised THEN result.tag = "error"
    ELSE result.tag = "result" /\ result.op = OpOf(seg.kind)

\* C9: the input is split on ';', empty segments are dropped, the remaining
\* segments run left to right (the tool-service calls are issued in segment
\* order) and results[i] is the result of the i-th non-empty segment;
\* "reload_servers(); list_servers()" calls reload, then list, and returns
\* two results in that order.
C9_LeftToRight ==
    cmdPc = "done" =>
        LET segs == NonBlank(cmdSegs)
            callable == Callable(cmdSegs)
        IN  /\ cmdOut.success
            /\ Len(cmdOut.results) = Len(segs)
            /\ \A i \in 1..Len(segs) :
                  ResultOfSegment(segs[i], cmdOut.results[i], cmdOracle[i])
            /\ Len(cmdOut.calls) = Len(callable)
            /\ \A i \in 1..Len(callable) :
                  cmdOut.calls[i].op = OpOf(callable[i].kind)
            /\ (cmdText = ReloadThenList /\ cmdOracle = [i \in 1..MaxSegs |-> FALSE]) =>
                  /\ cmdOut.calls = <<ToolCall("reload_servers", <<>>),
                                      ToolCall("list_servers", <<>>)>>
                  /\ cmdOut.results = <<Ok(ToolCall("reload_servers", <<>>)),
                                        Ok(ToolCall("list_servers", <<>>))>>

C9_Witness ==
    /\ cmdPc = "done"
    /\ cmdImpl = "parser"
    /\ cmdText = ReloadThenList
    /\ Len(cmdOut.results) = 2
    /\ cmdOut.calls[1].op = "reload_servers"

\* C10: the command inspect_server(N) calls the tool service's inspect
\* operation with a server name equal to exactly N.
C10_InspectExactName ==
    (cmdPc = "done" /\ Len(cmdSegs) = 1 /\ cmdSegs[1].kind = "inspect") =>
        cmdOut.calls = <<ToolCall("inspect_server", cmdSegs[1].args)>>

\* The text between the parentheses of a call_server_tool segment.
CallContent(seg) ==
    seg.args[1] \o <<",", " ">> \o seg.args[2] \o <<",", " ">> \o ArgsLit

\* C11: the arguments of call_server_tool(S, T, {a: 1, b: 2}) are split at
\* the commas outside braces only: exactly three arguments, S, T and the
\* braced span, and the tool service is called with server name S and tool
\* name T.
C11_BraceAwareSplit ==
    cmdPc = "done" =>
        LET callable == Callable(cmdSegs) IN
        \A i \in 1..Len(callable) :
            callable[i].kind = "call" =>
                /\ _parse_command_arguments(CallContent(callable[i]))
                      = <<callable[i].args[1], callable[i].args[2], ArgsLit>>
                /\ i <= Len(cmdOut.calls)
                /\ cmdOut.calls[i] = ToolCall("call_server_tool", callable[i].args)

C11_Witness ==
    /\ cmdPc = "done"
    /\ cmdImpl = "parser"
    /\ Len(cmdSegs) = 2
    /\ cmdSegs[2].kind = "call"
    /\ cmdSegs[2].args = << <<"F","o","o">>, <<"b","a","r">> >>
    /\ cmdOut.calls[2] = ToolCall("call_server_tool", cmdSegs[2].args)
    /\ Len(_parse_command_arguments(CallContent(cmdSegs[2]))) = 3

\* The segment fails: it is no known command, or the tool service raises.
Fails(seg, raised) == seg.kind = "unknown" \/ raised

\* C12: a failing command never ends the sequence: the executor reports
\* success with one result per non-empty segment, an unknown command and a
\* raising tool service each leave an error object at their own position,
\* and every segment after a failing one is still run, its call made and
\* its result stored.
C12_FailuresStayLocal ==
    cmdPc = "done" =>
        LET segs == NonBlank(cmdSegs) IN
        /\ cmdOut.success = TRUE
        /\ Len(cmdOut.results) = Len(segs)
        /\ \A i \in 1..Len(segs) :
              /\ segs[i].kind = "unknown" =>
                    /\ cmdOut.results[i].tag = "error"
                    /\ cmdOut.results[i].op = "Unknown command"
                    /\ cmdOut.results[i].args = <<Strip(segs[i].text)>>
              /\ (segs[i].kind # "unknown" /\ cmdOracle[i]) =>
                    cmdOut.results[i].tag = "error"
              /\ Fails(segs[i], cmdOracle[i]) =>
                    \A j \in (i + 1)..Len(segs) :
                        /\ ResultOfSegment(segs[j], cmdOut.results[j], cmdOracle[j])
                        /\ segs[j].kind # "unknown" =>
                              \E k \in 1..Len(cmdOut.calls) :
                                  /\ cmdOut.calls[k].op = OpOf(segs[j].kind)
                                  /\ k = Len(Callable(SubSeq(segs, 1, j)))

\* An unknown command, then a command on which the tool service raises.
C12_Witness ==
    /\ cmdPc = "done"
    /\ cmdImpl = "parser"
    /\ Len(cmdSegs) = 2
    /\ cmdSegs[1].kind = "unknown"
    /\ cmdSegs[2].kind = "reload"
    /\ cmdOracle[2]
    /\ cmdOut.success
    /\ cmdOut.results[1].op = "Unknown command"
    /\ cmdOut.results[2].tag = "error"
    /\ cmdOut.calls = <<ToolCall("reload_servers", <<>>)>>

\* C37: the two executors are equivalent: whatever executor ran on a
\* command sequence and a behaviour of the tool service, the other one
\* returns the same results and issues the same calls, with the same
\* arguments, in the same order.
C37_ExecutorsEquivalent ==
    cmdPc = "done" =>
        cmdOut = IF cmdImpl = "jarvis"
                 THEN execute_command_sequence(cmdText, cmdOracle)
                 ELSE Jarvis_execute_supermcp_commands(cmdText, cmdOracle)

\* The inline executor has run a malformed command that issues no call,
\* followed by a call_server_tool during which the tool service raised.
C37_Witness ==
    /\ cmdPc = "done"
    /\ cmdImpl = "jarvis"
    /\ Len(cmdSegs) = 2
    /\ cmdSegs[1].kind = "malformed"
    /\ cmdSegs[2].kind = "call"
    /\ cmdOracle[2]
    /\ Len(cmdOut.results) = 2
    /\ cmdOut.results[2].tag = "error"
    /\ Len(cmdOut.calls) = 1
    /\ cmdOut.calls[1].op = "call_server_tool"

\* C38: a ';' inside the braces of a call_server_tool argument does not
\* split the sequence: a sequence that is one call_server_tool(S, T, {...})
\* with a ';' between the braces gives one result and one tool-service
\* call, call_server_tool of server S and tool T.
C38_SemicolonInBraces ==
    (cmdPc = "done" /\ Len(cmdSegs) = 1 /\ cmdSegs[1].kind = "semicall") =>
        /\ Len(cmdOut.results) = 1
        /\ cmdOut.calls = << ToolCall("call_server_tool", cmdSegs[1].args) >>

(***************************************************************************)
(* Claims about the dialog loop.                                           *)
(***************************************************************************)
IsObjectWith(r, tag) ==
    r.shape = "object" /\ r.has_ur /\ r.ur = tag /\ r.has_out /\ r.out_is_str

WellFormedTool(r) == IsObjectWith(r, "SuperMCP")
WellFormedConversation(r) == IsObjectWith(r, "Conversation")
WellFormed(r) == WellFormedTool(r) \/ WellFormedConversation(r)

LastReply == replyLog[Len(replyLog)]
LastCall == callLog[Len(callLog)]

\* The messages of h that are the prompt of ask() number n.
PromptCount(h, n) ==
    Cardinality({ i \in 1..Len(h) : h[i].kind = "prompt" /\ h[i].n = n })

\* Reply j was followed by a further model call, whose message list is the
\* previous one plus the fixed corrective instruction.
CorrectiveRetryAfter(j) ==
    /\ Len(callLog) >= j + 1
    /\ callLog[j + 1] =
           Append(callLog[j],
                  [role |-> "user", kind |-> "corrective", n |-> 0, out |-> NoOut])

C5_ToolRoundTrips ==
    ( /\ askPc = "returned"
      /\ WellFormedConversation(LastReply)
      /\ \A j \in 1..(Len(replyLog) - 1) : WellFormedTool(replyLog[j]) ) =>
        LET n == Len(replyLog) - 1 IN
        /\ Len(callLog) = n + 1
        /\ Len(toolLog) = n
        /\ \A i \in 1..n :
              /\ toolLog[i].cmd = replyLog[i].cmd
              /\ \E oracle \in [1..MaxSegs -> BOOLEAN] :
                    toolLog[i].out =
                        Jarvis_execute_supermcp_commands(replyLog[i].cmd, oracle)
              /\ callLog[i + 1] =
                     Append(callLog[i],
                            [role |-> "user", kind |-> "tool", n |-> 0,
                             out |-> toolLog[i].out])
        /\ \A i \in 1..(n + 1) : PromptCount(callLog[i], askNo) = 1
        /\ callLog[1][Len(callLog[1])] = PromptMsg(askNo)
        /\ askResult = LastReply

C5_Witness ==
    /\ askPc = "returned"
    /\ Len(replyLog) = 3
    /\ WellFormedTool(replyLog[1])
    /\ WellFormedTool(replyLog[2])
    /\ WellFormedConversation(replyLog[3])
    /\ Len(toolLog) = 2

\* C6: each reply that is not parseable JSON is followed by one retry call
\* that adds the fixed corrective instruction, never the prompt, as a user
\* message; after k such replies and a valid reply there were exactly k
\* retries and ask() goes on as it does for that reply alone.
C6_CorrectiveRetry ==
    /\ \A j \in 1..Len(replyLog) :
          replyLog[j].shape = "invalid_json" => CorrectiveRetryAfter(j)
    /\ ( /\ Len(replyLog) >= 2
         /\ \A j \in 1..(Len(replyLog) - 1) : replyLog[j].shape = "invalid_json"
         /\ WellFormed(LastReply) ) =>
           LET k == Len(replyLog) - 1 IN
           /\ PromptCount(LastCall, askNo) = 1
           /\ WellFormedConversation(LastReply) =>
                 /\ askPc = "returned"
                 /\ askResult = LastReply
                 /\ Len(callLog) = k + 1
                 /\ toolLog = <<>>
           /\ WellFormedTool(LastReply) =>
                 /\ askPc = "chat"
                 /\ Len(callLog) = k + 2
                 /\ Len(toolLog) = 1
                 /\ toolLog[1].cmd = LastReply.cmd
                 /\ LastCall[Len(LastCall)].kind = "tool"

C6_Witness ==
    /\ askPc = "returned"
    /\ Len(replyLog) = 3
    /\ replyLog[1].shape = "invalid_json"
    /\ replyLog[2].shape = "invalid_json"
    /\ WellFormedConversation(replyLog[3])

\* A message list of the chat session: the system message first, then user
\* messages only.
SystemThenUsers(h) ==
    /\ Len(h) >= 1
    /\ h[1] = default_chat[1]
    /\ \A i \in 2..Len(h) : h[i].role = "user"

\* C36: the chat session is the fixed system message followed by user
\* messages only, in the order sent: the session and every message list
\* handed to the model have that form, each model call of an ask() gets the
\* list of the call before it plus one user message, and no reply of the
\* model is added (the list grows by one per call).
C36_SystemThenUserMessages ==
    /\ SystemThenUsers(chat_history)
    /\ \A j \in 1..Len(callLog) : SystemThenUsers(callLog[j])
    /\ \A j \in 1..(Len(callLog) - 1) :
          /\ Len(callLog[j + 1]) = Len(callLog[j]) + 1
          /\ SubSeq(callLog[j + 1], 1, Len(callLog[j])) = callLog[j]
    /\ askPc = "chat" => chat_history = LastCall
    /\ askPc \in {"chat", "spin"} => Len(chat_history) >= 1 + Len(callLog)

\* The third model call of an ask(): the system message, the prompt, the
\* corrective instruction after an unparseable reply, and a tool result.
C36_Witness ==
    /\ askPc = "chat"
    /\ Len(callLog) = 3
    /\ LastCall[2].kind = "prompt"
    /\ LastCall[3].kind = "corrective"
    /\ LastCall[4].kind = "tool"
    /\ Len(replyLog) = 2

\* C7: every reply that is not a JSON object with user_request in
\* {Conversation, Tool} and a string output is answered by the corrective
\* retry: ask() never raises and never goes round its loop without a
\* model call.
C7_ShapeErrorsRetry ==
    /\ \A j \in 1..Len(replyLog) :
          ~WellFormed(replyLog[j]) => CorrectiveRetryAfter(j)
    /\ askPc # "raised"
    /\ spins = 0

\* C23: the answer of every ask() that returned went to exactly one sink,
\* chosen by the output mode: speech for "voice", print for "text", and
\* print for any other mode value.
C23_AnswerDelivered ==
    askPc = "returned" =>
        sinkLog = << [sink |-> IF cfgMode = "voice" THEN "voice" ELSE "text",
                      text |-> askResult.text] >>

\* C8: with RESET_HISTORY_AFTER_RESPONSE true the session is the single
\* system message after every completed ask(); with the flag false the
\* session is kept, and the next ask() still holds the earlier prompt.
C8_ResetPerFlag ==
    /\ askPc = "returned" =>
          IF cfgReset THEN chat_history = default_chat
          ELSE chat_history = LastCall
    /\ (askPc = "chat" /\ prevDone /\ ~cfgReset) =>
          PromptCount(chat_history, askNo - 1) = 1

(***************************************************************************)
(* The specifications.                                                     *)
(***************************************************************************)
CmdInit == CmdStart /\ AskIdle /\ WakeIdle /\ CoordIdle /\ LoopIdle

SpecCmd == CmdInit /\ [][CmdNext]_vars

RawInit == RawStart /\ AskIdle /\ WakeIdle /\ CoordIdle /\ LoopIdle

SpecRaw == RawInit /\ [][CmdNext]_vars

AskInit == AskStart /\ CmdIdle /\ WakeIdle /\ CoordIdle /\ LoopIdle

SpecAsk == AskInit /\ [][AskNext]_vars

WakeInit == WakeStart /\ CmdIdle /\ AskIdle /\ CoordIdle /\ LoopIdle

SpecWake == WakeInit /\ [][WakeNext]_vars

GetInit == WakeStart /\ CmdIdle /\ AskIdle /\ CoordIdle /\ LoopIdle

SpecGet == GetInit /\ [][GetNext]_vars

CoordInit == CoordStart /\ CmdIdle /\ AskIdle /\ WakeIdle /\ LoopIdle

LoopInit == LoopStart /\ CmdIdle /\ AskIdle /\ WakeIdle /\ CoordIdle

SpecLoop == LoopInit /\ [][LoopNext]_vars

SpecCoord == CoordInit /\ [][CoordNext]_vars

\* The steps the coordinator's own thread takes without waiting for anyone:
\* it runs on unless interrupted; a thread whose flag is cleared ends.
CoordSteps ==
    \/ CoStart
    \/ CoPoll
    \/ CoStopDetector
    \/ CoJoinDetector
    \/ CoSttStart
    \/ CoTakeResult
    \/ CoSttStop
    \/ CoSttJoin
    \/ CoRestart
    \/ CoCleanup
    \/ CoCleanupJoin

SpecCoordLive ==
    /\ SpecCoord
    /\ WF_vars(CoordSteps)
    /\ WF_vars(DetectorExit)
    /\ WF_vars(SttWorkerExit)

====
